---- MODULE Spec2Model ----
(***************************************************************************)
(* Verification model of rkn-checker: the in-memory index (MemoryStore),   *)
(* its bloom filter and radix tree, the domain rule types, and the URL     *)
(* normalizer.                                                             *)
(*                                                                         *)
(* Go strings are modelled as sequences of one-character strings; Ord      *)
(* gives the byte value of every character of the modelled alphabet.       *)
(* 64-bit unsigned integers are modelled as 8 little-endian limbs of 8     *)
(* bits, so that the wrap-around of the FNV hashes is kept.                *)
(***************************************************************************)
EXTENDS Integers, Sequences, FiniteSets, TLC

\* ------------------------------------------------------------------------
\* Strings
\* ------------------------------------------------------------------------

\* Byte value of the characters of the modelled alphabet (ASCII).
Ord ==
  [c \in {" ", "*", "-", ".", "/", ":", "0", "1", "2", "3", "4", "5", "6",
          "7", "8", "9", "B", "[", "]", "a", "b", "c", "d", "e", "f", "h",
          "p", "t", "w"} |->
    CASE c = " " -> 32 [] c = "*" -> 42 [] c = "-" -> 45 [] c = "." -> 46
      [] c = "/" -> 47 [] c = ":" -> 58
      [] c = "0" -> 48 [] c = "1" -> 49 [] c = "2" -> 50 [] c = "3" -> 51
      [] c = "4" -> 52 [] c = "5" -> 53 [] c = "6" -> 54 [] c = "7" -> 55
      [] c = "8" -> 56 [] c = "9" -> 57
      [] c = "B" -> 66 [] c = "[" -> 91 [] c = "]" -> 93
      [] c = "a" -> 97 [] c = "b" -> 98 [] c = "c" -> 99 [] c = "d" -> 100
      [] c = "e" -> 101 [] c = "f" -> 102 [] c = "h" -> 104
      [] c = "p" -> 112 [] c = "t" -> 116 [] c = "w" -> 119]

Digits == {"0", "1", "2", "3", "4", "5", "6", "7", "8", "9"}

DigitVal(c) == Ord[c] - 48

\* strings.HasPrefix
HasPrefix(s, p) == Len(p) <= Len(s) /\ SubSeq(s, 1, Len(p)) = p

\* strings.HasSuffix
HasSuffix(s, p) ==
  Len(p) <= Len(s) /\ SubSeq(s, Len(s) - Len(p) + 1, Len(s)) = p

\* strings.TrimPrefix
TrimPrefix(s, p) == IF HasPrefix(s, p) THEN SubSeq(s, Len(p) + 1, Len(s)) ELSE s

\* strings.Contains
Contains(s, p) ==
  \E i \in 1..(Len(s) - Len(p) + 1) : SubSeq(s, i, i + Len(p) - 1) = p

\* strings.Index, 1-based; 0 when p does not occur in s
Index(s, p) ==
  IF Contains(s, p)
  THEN CHOOSE i \in 1..(Len(s) - Len(p) + 1) :
         /\ SubSeq(s, i, i + Len(p) - 1) = p
         /\ \A j \in 1..(i - 1) : SubSeq(s, j, j + Len(p) - 1) # p
  ELSE 0

\* strings.LastIndex, 1-based; 0 when p does not occur in s
LastIndex(s, p) ==
  IF Contains(s, p)
  THEN CHOOSE i \in 1..(Len(s) - Len(p) + 1) :
         /\ SubSeq(s, i, i + Len(p) - 1) = p
         /\ \A j \in (i + 1)..(Len(s) - Len(p) + 1) :
              SubSeq(s, j, j + Len(p) - 1) # p
  ELSE 0

\* strings.Split(s, ".") : the labels of s, a sequence of strings
RECURSIVE SplitDot(_)
SplitDot(s) ==
  LET i == Index(s, <<".">>) IN
    IF i = 0 THEN <<s>>
    ELSE <<SubSeq(s, 1, i - 1)>> \o SplitDot(SubSeq(s, i + 1, Len(s)))

\* strings.Join(parts, ".")
RECURSIVE JoinDot(_)
JoinDot(parts) ==
  IF Len(parts) = 0 THEN <<>>
  ELSE IF Len(parts) = 1 THEN parts[1]
  ELSE parts[1] \o <<".">> \o JoinDot(Tail(parts))

\* strings.ToLower on the modelled alphabet
ToLowerChar(c) ==
  IF c = "B" THEN "b" ELSE IF c = "C" THEN "c" ELSE IF c = "K" THEN "k"
  ELSE IF c = "P" THEN "p" ELSE IF c = "S" THEN "s"
  ELSE IF c = "V" THEN "v" ELSE c

ToLower(s) == [i \in 1..Len(s) |-> ToLowerChar(s[i])]

\* the strings the model's inputs are made of
S_abc == <<"a", ".", "b", ".", "c">>
S_bc == <<"b", ".", "c">>
S_dabc == <<"d", ".", "a", ".", "b", ".", "c">>
S_dbc == <<"d", ".", "b", ".", "c">>
S_dc == <<"d", ".", "c">>
S_Bc == <<"B", ".", "c">>
S_ip == <<"1", ".", "2", ".", "3", ".", "4">>
S_bcBad == <<"b", "c">>
S_path == <<"/", "p">>
S_star == <<"*", ".">>

\* every string that is hashed in the model; their hashes are tabulated
HashedStrings == {<<>>, S_abc, S_bc, S_dabc, S_dbc, S_dc, S_Bc, S_ip, S_bcBad}

\* ------------------------------------------------------------------------
\* 64-bit unsigned arithmetic on 8 limbs of 8 bits (little endian)
\* ------------------------------------------------------------------------

Limbs == 64 \div 8

\* the limbs of a sequence of column sums, carries propagated, modulo 2^64
RECURSIVE Carry(_, _, _)
Carry(cols, i, carry) ==
  IF i > Limbs THEN <<>>
  ELSE LET t == cols[i] + carry IN <<t % 256>> \o Carry(cols, i + 1, t \div 256)

\* a + b modulo 2^64
Add64(a, b) == Carry([i \in 1..Limbs |-> a[i] + b[i]], 1, 0)

RECURSIVE ColSum(_, _, _, _)
ColSum(a, b, i, j) ==
  IF j > i THEN 0 ELSE a[j] * b[i - j + 1] + ColSum(a, b, i, j + 1)

\* a * b modulo 2^64
Mul64(a, b) == Carry([i \in 1..Limbs |-> ColSum(a, b, i, 1)], 1, 0)

\* a small natural number as a 64-bit value
RECURSIVE ToLimbs(_, _)
ToLimbs(n, i) ==
  IF i > Limbs THEN <<>> ELSE <<n % 256>> \o ToLimbs(n \div 256, i + 1)

U64(n) == ToLimbs(n, 1)

\* bitwise exclusive or of two bytes
RECURSIVE XorByte(_, _)
XorByte(x, y) ==
  IF x = 0 THEN y
  ELSE IF y = 0 THEN x
  ELSE ((x + y) % 2) + 2 * XorByte(x \div 2, y \div 2)

\* a XOR byte
Xor64(a, byte) == [i \in 1..Limbs |-> IF i = 1 THEN XorByte(a[1], byte) ELSE a[i]]

\* a % m for 0 < m < 2^27, four bits at a time from the most significant limb
RECURSIVE Mod64From(_, _, _, _)
Mod64From(a, m, i, r) ==
  IF i = 0 THEN r
  ELSE LET r1 == (r * 16 + (a[i] \div 16)) % m
           r2 == (r1 * 16 + (a[i] % 16)) % m
       IN Mod64From(a, m, i - 1, r2)

Mod64(a, m) == Mod64From(a, m, Limbs, 0)

\* ------------------------------------------------------------------------
\* hash/fnv (64 bit)
\* ------------------------------------------------------------------------

\* offset64 = 14695981039346656037 = 0xcbf29ce484222325
FnvOffset64 == <<37, 35, 34, 132, 228, 156, 242, 203>>

\* prime64 = 1099511628211 = 0x00000100000001b3
FnvPrime64 == <<179, 1, 0, 0, 0, 1, 0, 0>>

\* fnv.New64: hash = hash * prime; hash = hash XOR byte
RECURSIVE Fnv1(_, _, _)
Fnv1(s, i, h) ==
  IF i > Len(s) THEN h
  ELSE Fnv1(s, i + 1, Xor64(Mul64(h, FnvPrime64), Ord[s[i]]))

\* fnv.New64a: hash = hash XOR byte; hash = hash * prime
RECURSIVE Fnv1a(_, _, _)
Fnv1a(s, i, h) ==
  IF i > Len(s) THEN h
  ELSE Fnv1a(s, i + 1, Mul64(Xor64(h, Ord[s[i]]), FnvPrime64))

\* BloomFilter.getHashes: <<FNV-1(item), FNV-1a(item)>>
computeHashes(item) == <<Fnv1(item, 1, FnvOffset64), Fnv1a(item, 1, FnvOffset64)>>

\* computeHashes, tabulated once for the strings of the model
HashTable == [item \in HashedStrings |-> computeHashes(item)]

getHashes(item) ==
  IF item \in HashedStrings THEN HashTable[item] ELSE computeHashes(item)

\* ------------------------------------------------------------------------
\* BloomFilter.  bits is the set of the indices of the bits that are set.
\* ------------------------------------------------------------------------

\* n == 0 selects this cardinality
DefaultBloomN == 1000000

\* m = uint64(-n * ln(0.01) / (ln 2)^2) = floor(n * 9.585058...); the
\* product is computed exactly for n <= 200 and for the default cardinality.
BloomBits(n) ==
  IF n = DefaultBloomN THEN 9585058 ELSE (n * 9585058) \div 1000000

\* k = uint64(m / n * ln 2) = floor(m * 0.693147... / n), forced into 1..10
BloomHashes(n, m) ==
  LET k == IF n = DefaultBloomN THEN 6 ELSE (m * 693147) \div (n * 1000000) IN
    IF k = 0 THEN 1 ELSE IF k > 10 THEN 10 ELSE k

\* NewBloomFilter(n, 0.01)
NewBloomFilter(n) ==
  LET n1 == IF n = 0 THEN DefaultBloomN ELSE n
      m  == BloomBits(n1)
  IN [bits |-> {}, size |-> m, k |-> BloomHashes(n1, m)]

\* the k probed bit indices (hashes[0] + i*hashes[1]) % size, i = 0..k-1
computeIndexes(size, k, item) ==
  LET hashes == getHashes(item) IN
    { Mod64(Add64(hashes[1], Mul64(U64(i), hashes[2])), size) :
        i \in 0..(k - 1) }

\* longest registry passed to Update
MaxEntries == 2

\* the filter geometries NewBloomFilter produces for registries of up to
\* IndexTableMax entries; computeIndexes is tabulated for them
IndexTableMax == MaxEntries + 2

IndexTable ==
  [n \in 0..IndexTableMax |->
     [item \in HashedStrings |->
        LET n1 == IF n = 0 THEN DefaultBloomN ELSE n IN
          computeIndexes(BloomBits(n1), BloomHashes(n1, BloomBits(n1)), item)]]

BloomIndexes(bf, item) ==
  IF item \in HashedStrings
     /\ \E n \in 0..IndexTableMax :
          bf.size = BloomBits(IF n = 0 THEN DefaultBloomN ELSE n)
  THEN LET n == CHOOSE n \in 0..IndexTableMax :
                  bf.size = BloomBits(IF n = 0 THEN DefaultBloomN ELSE n)
       IN IndexTable[n][item]
  ELSE computeIndexes(bf.size, bf.k, item)

\* BloomFilter.Add
BloomAdd(bf, item) == [bf EXCEPT !.bits = @ \cup BloomIndexes(bf, item)]

\* BloomFilter.Contains
BloomContains(bf, item) == BloomIndexes(bf, item) \subseteq bf.bits

\* BloomFilter.Clear
BloomClear(bf) == [bf EXCEPT !.bits = {}]

\* ------------------------------------------------------------------------
\* RadixTree.  A node is [key, children, isEnd, value]; children maps the
\* first character of a child's key to the child.
\* ------------------------------------------------------------------------

\* a nil pointer / nil interface value
Nil == [nil |-> TRUE]

newRadixNode(key) ==
  [key |-> key, children |-> <<>>, isEnd |-> FALSE, value |-> Nil]

NewRadixTree == [root |-> newRadixNode(<<>>), size |-> 0]

RECURSIVE lcpLen(_, _, _)
lcpLen(str1, str2, i) ==
  IF i < Len(str1) /\ i < Len(str2) /\ str1[i + 1] = str2[i + 1]
  THEN lcpLen(str1, str2, i + 1)
  ELSE i

\* RadixTree.longestCommonPrefix
longestCommonPrefix(str1, str2) == SubSeq(str1, 1, lcpLen(str1, str2, 0))

\* RadixTree.insert: the node after the insertion and the growth of rt.size
RECURSIVE insert(_, _, _)
insert(node, key, value) ==
  IF key = <<>>
  THEN [node |-> [node EXCEPT !.isEnd = TRUE, !.value = value],
        grew |-> IF node.isEnd THEN 0 ELSE 1]
  ELSE
    LET firstChar == key[1] IN
    IF firstChar \notin DOMAIN node.children
    THEN LET newNode == [newRadixNode(key) EXCEPT !.isEnd = TRUE, !.value = value]
         IN [node |-> [node EXCEPT !.children = (firstChar :> newNode) @@ @],
             grew |-> 1]
    ELSE
      LET child == node.children[firstChar]
          commonPrefix == longestCommonPrefix(child.key, key)
          n == Len(commonPrefix)
      IN
      IF commonPrefix = child.key
      THEN LET r == insert(child, SubSeq(key, n + 1, Len(key)), value)
           IN [node |-> [node EXCEPT !.children[firstChar] = r.node],
               grew |-> r.grew]
      ELSE IF commonPrefix = key
      THEN LET splitNode ==
                 [key |-> SubSeq(child.key, n + 1, Len(child.key)),
                  children |-> child.children,
                  isEnd |-> child.isEnd, value |-> child.value]
               newChild ==
                 [key |-> commonPrefix,
                  children |-> (splitNode.key[1] :> splitNode),
                  isEnd |-> TRUE, value |-> value]
           IN [node |-> [node EXCEPT !.children[firstChar] = newChild],
               grew |-> 1]
      ELSE LET existingNode ==
                 [key |-> SubSeq(child.key, n + 1, Len(child.key)),
                  children |-> child.children,
                  isEnd |-> child.isEnd, value |-> child.value]
               newNode ==
                 [newRadixNode(SubSeq(key, n + 1, Len(key)))
                    EXCEPT !.isEnd = TRUE, !.value = value]
               parentNode ==
                 [newRadixNode(commonPrefix) EXCEPT !.children =
                    (newNode.key[1] :> newNode) @@
                    (existingNode.key[1] :> existingNode)]
           IN [node |-> [node EXCEPT !.children[firstChar] = parentNode],
               grew |-> 1]

\* RadixTree.Insert
RadixInsert(rt, key, value) ==
  IF key = <<>> THEN rt
  ELSE LET r == insert(rt.root, key, value)
       IN [root |-> r.node, size |-> rt.size + r.grew]

\* RadixTree.search: the node reached by key, or Nil
RECURSIVE search(_, _)
search(node, key) ==
  IF key = <<>> THEN node
  ELSE IF key[1] \notin DOMAIN node.children THEN Nil
  ELSE LET child == node.children[key[1]] IN
         IF HasPrefix(key, child.key)
         THEN search(child, SubSeq(key, Len(child.key) + 1, Len(key)))
         ELSE Nil

\* Search hitting every node the key reaches, an end of a key or not
RadixSearchIgnoresIsEnd(rt, key) ==
  IF key = <<>> THEN [value |-> Nil, exists |-> FALSE]
  ELSE LET node == search(rt.root, key) IN
         IF node # Nil
         THEN [value |-> node.value, exists |-> TRUE]
         ELSE [value |-> Nil, exists |-> FALSE]

\* RadixTree.Search: [value, exists]
RadixSearch(rt, key) ==
  IF key = <<>> THEN [value |-> Nil, exists |-> FALSE]
  ELSE LET node == search(rt.root, key) IN
         IF node # Nil /\ node.isEnd
         THEN [value |-> node.value, exists |-> TRUE]
         ELSE [value |-> Nil, exists |-> FALSE]

\* RadixTree.MatchesWildcard: the first suffix parts[i:], i >= 1, found
RECURSIVE matchesFrom(_, _, _)
matchesFrom(rt, parts, i) ==
  IF i > Len(parts) THEN [value |-> Nil, exists |-> FALSE]
  ELSE LET r == RadixSearch(rt, JoinDot(SubSeq(parts, i, Len(parts)))) IN
         IF r.exists THEN r ELSE matchesFrom(rt, parts, i + 1)

\* MatchesWildcard with the loop started at the whole domain (i := 0)
MatchesWildcardFromBase(rt, domain) == matchesFrom(rt, SplitDot(domain), 1)

MatchesWildcard(rt, domain) == matchesFrom(rt, SplitDot(domain), 2)

\* RadixTree.Clear
RadixClear(rt) == NewRadixTree

\* ------------------------------------------------------------------------
\* net.ParseIP and IP.String.  An address is a sequence of 16 bytes.
\* ------------------------------------------------------------------------

HexVal(c) ==
  IF c \in Digits THEN Ord[c] - 48
  ELSE IF c \in {"a", "b", "c", "d", "e", "f"} THEN Ord[c] - 97 + 10
  ELSE IF c \in {"B"} THEN Ord[c] - 65 + 10
  ELSE -1

\* parseIPv4Fields: the four bytes, or <<>> on error.  pos is the 1-based
\* position in s, val the value of the field being read, digLen its number
\* of digits, out the fields read so far.
RECURSIVE parseIPv4Fields(_, _, _, _, _)
parseIPv4Fields(s, pos, val, digLen, out) ==
  IF pos > Len(s)
  THEN IF Len(out) = 3 /\ digLen > 0 THEN Append(out, val) ELSE <<>>
  ELSE IF s[pos] \in Digits
  THEN IF digLen = 1 /\ val = 0 THEN <<>>
       ELSE LET v == val * 10 + DigitVal(s[pos]) IN
              IF v > 255 THEN <<>>
              ELSE parseIPv4Fields(s, pos + 1, v, digLen + 1, out)
  ELSE IF s[pos] = "."
  THEN IF pos = 1 \/ pos = Len(s) \/ digLen = 0 \/ Len(out) = 3 THEN <<>>
       ELSE parseIPv4Fields(s, pos + 1, 0, 0, Append(out, val))
  ELSE <<>>

V4Prefix == <<0, 0, 0, 0, 0, 0, 0, 0, 0, 0, 255, 255>>

\* parseIPv4, widened to 16 bytes as net.ParseIP returns it
parseIPv4(s) ==
  LET f == parseIPv4Fields(s, 1, 0, 0, <<>>) IN
    IF f = <<>> THEN Nil ELSE V4Prefix \o f

\* the hex group at the head of s: [off, acc], off = -1 on error
RECURSIVE hexGroup(_, _, _)
hexGroup(s, off, acc) ==
  IF off < Len(s) /\ HexVal(s[off + 1]) >= 0
  THEN IF off > 3 THEN [off |-> -1, acc |-> 0]
       ELSE hexGroup(s, off + 1, acc * 16 + HexVal(s[off + 1]))
  ELSE [off |-> off, acc |-> acc]

\* the bytes ip[0..i-1] followed by the expansion of the ellipsis
expandEllipsis(ip, ellipsis) ==
  SubSeq(ip, 1, ellipsis) \o [j \in 1..(16 - Len(ip)) |-> 0]
    \o SubSeq(ip, ellipsis + 1, Len(ip))

\* the loop of parseIPv6: ip holds the bytes parsed so far
RECURSIVE parseIPv6Loop(_, _, _)
parseIPv6Loop(s, ip, ellipsis) ==
  LET finish(rest, bytes, ell) ==
        IF rest # <<>> THEN Nil
        ELSE IF Len(bytes) < 16
        THEN IF ell < 0 THEN Nil ELSE expandEllipsis(bytes, ell)
        ELSE IF ell >= 0 THEN Nil ELSE bytes
  IN
  IF Len(ip) >= 16 THEN finish(s, ip, ellipsis)
  ELSE
    LET g == hexGroup(s, 0, 0) IN
    IF g.off <= 0 THEN Nil
    ELSE IF g.off < Len(s) /\ s[g.off + 1] = "."
    THEN IF (ellipsis < 0 /\ Len(ip) # 12) \/ Len(ip) + 4 > 16 THEN Nil
         ELSE LET f == parseIPv4Fields(s, 1, 0, 0, <<>>) IN
                IF f = <<>> THEN Nil ELSE finish(<<>>, ip \o f, ellipsis)
    ELSE
      LET ip1 == ip \o <<g.acc \div 256, g.acc % 256>>
          s1 == SubSeq(s, g.off + 1, Len(s))
      IN
      IF s1 = <<>> THEN finish(s1, ip1, ellipsis)
      ELSE IF s1[1] # ":" THEN Nil
      ELSE IF Len(s1) = 1 THEN Nil
      ELSE LET s2 == Tail(s1) IN
        IF s2[1] = ":"
        THEN IF ellipsis >= 0 THEN Nil
             ELSE IF Len(s2) = 1 THEN finish(<<>>, ip1, Len(ip1))
             ELSE parseIPv6Loop(Tail(s2), ip1, Len(ip1))
        ELSE parseIPv6Loop(s2, ip1, ellipsis)

\* netip.parseIPv6 (no zone: the alphabet has no '%')
parseIPv6(s) ==
  IF Len(s) >= 2 /\ s[1] = ":" /\ s[2] = ":"
  THEN IF Len(s) = 2 THEN [j \in 1..16 |-> 0]
       ELSE parseIPv6Loop(SubSeq(s, 3, Len(s)), <<>>, 0)
  ELSE parseIPv6Loop(s, <<>>, -1)

\* net.ParseIP: the first '.' or ':' selects the syntax; Nil when invalid
RECURSIVE parseIPFrom(_, _)
parseIPFrom(s, i) ==
  IF i > Len(s) THEN Nil
  ELSE IF s[i] = "." THEN parseIPv4(s)
  ELSE IF s[i] = ":" THEN parseIPv6(s)
  ELSE parseIPFrom(s, i + 1)

ParseIP(s) == parseIPFrom(s, 1)

\* IP.To4: the four bytes of an IPv4 or IPv4-mapped address, or Nil
To4(ip) == IF SubSeq(ip, 1, 12) = V4Prefix THEN SubSeq(ip, 13, 16) ELSE Nil

HexDigit(v) ==
  CASE v < 10 -> <<"0", "1", "2", "3", "4", "5", "6", "7", "8", "9">>[v + 1]
    [] v >= 10 -> <<"a", "b", "c", "d", "e", "f">>[v - 9]

\* decimal text of a byte
DecStr(v) ==
  IF v >= 100 THEN <<HexDigit(v \div 100), HexDigit((v \div 10) % 10), HexDigit(v % 10)>>
  ELSE IF v >= 10 THEN <<HexDigit(v \div 10), HexDigit(v % 10)>>
  ELSE <<HexDigit(v)>>

\* hexadecimal text of a 16-bit group, without leading zeros
HexStr(v) ==
  IF v >= 4096 THEN <<HexDigit(v \div 4096), HexDigit((v \div 256) % 16),
                      HexDigit((v \div 16) % 16), HexDigit(v % 16)>>
  ELSE IF v >= 256 THEN <<HexDigit(v \div 256), HexDigit((v \div 16) % 16), HexDigit(v % 16)>>
  ELSE IF v >= 16 THEN <<HexDigit(v \div 16), HexDigit(v % 16)>>
  ELSE <<HexDigit(v)>>

\* dotted-quad text of four bytes
String4(b) ==
  DecStr(b[1]) \o <<".">> \o DecStr(b[2]) \o <<".">> \o DecStr(b[3])
    \o <<".">> \o DecStr(b[4])

Group(ip, g) == ip[2 * g + 1] * 256 + ip[2 * g + 2]

\* length of the run of zero groups that starts at group g
RECURSIVE zeroRun(_, _)
zeroRun(ip, g) == IF g < 8 /\ Group(ip, g) = 0 THEN 1 + zeroRun(ip, g + 1) ELSE 0

\* netip.Addr.string16: the longest run (first of them) of two or more
\* zero groups is written "::"
RECURSIVE string16From(_, _, _, _)
string16From(ip, g, zs, ze) ==
  IF g >= 8 THEN <<>>
  ELSE IF g = zs
  THEN <<":", ":">> \o (IF ze >= 8 THEN <<>> ELSE string16From(ip, ze, zs, ze))
  ELSE (IF g > 0 /\ g # ze THEN <<":">> ELSE <<>>) \o HexStr(Group(ip, g))
         \o string16From(ip, g + 1, zs, ze)

String16(ip) ==
  LET best == CHOOSE g \in 0..7 :
                /\ \A h \in 0..(g - 1) : zeroRun(ip, h) < zeroRun(ip, g)
                /\ \A h \in (g + 1)..7 : zeroRun(ip, h) <= zeroRun(ip, g)
      n == zeroRun(ip, best)
  IN IF n >= 2 THEN string16From(ip, 0, best, best + n)
     ELSE string16From(ip, 0, -1, -1)

\* IP.String of a 16-byte address
IPString(ip) == IF To4(ip) # Nil THEN String4(To4(ip)) ELSE String16(ip)

\* ------------------------------------------------------------------------
\* net/url.Parse, as far as the Host of the result is concerned.  The
\* alphabet has no '#', '?', '@', '%' and no control characters.
\* ------------------------------------------------------------------------

Letters == {"B", "a", "b", "c", "d", "e", "f", "h", "p", "t", "w"}

\* url.getScheme: [err, scheme, rest]
RECURSIVE getScheme(_, _)
getScheme(rawURL, i) ==
  IF i > Len(rawURL) THEN [err |-> FALSE, scheme |-> <<>>, rest |-> rawURL]
  ELSE IF rawURL[i] \in Letters THEN getScheme(rawURL, i + 1)
  ELSE IF rawURL[i] \in Digits \cup {"-", "."}
  THEN IF i = 1 THEN [err |-> FALSE, scheme |-> <<>>, rest |-> rawURL]
       ELSE getScheme(rawURL, i + 1)
  ELSE IF rawURL[i] = ":"
  THEN IF i = 1 THEN [err |-> TRUE, scheme |-> <<>>, rest |-> <<>>]
       ELSE [err |-> FALSE, scheme |-> SubSeq(rawURL, 1, i - 1),
             rest |-> SubSeq(rawURL, i + 1, Len(rawURL))]
  ELSE [err |-> FALSE, scheme |-> <<>>, rest |-> rawURL]

\* url.validOptionalPort
validOptionalPort(port) ==
  \/ port = <<>>
  \/ /\ port[1] = ":"
     /\ \A i \in 2..Len(port) : port[i] \in Digits

\* netip.Addr.Is4 of the address netip.ParseAddr(s) gives: s is written as
\* an IPv4 address, its first '.' standing before any ':'
Is4(s) ==
  LET d == Index(s, <<".">>)
      c == Index(s, <<":">>)
  IN d # 0 /\ (c = 0 \/ d < c)

\* url.parseHost of the last release of Go 1.24, which the Dockerfile
\* builds with (golang:1.24-alpine): [err, host].  A host with a '[' is an
\* IP literal: behind its last ']' stands nothing but an optional port,
\* what stands between the last '[' and the last ']' is an IPv6 address
\* (netip.ParseAddr, not Is4), and the host returned is that address in
\* brackets and the port.  A space is the only character of the alphabet
\* that a host may not contain.
parseHost(host) ==
  LET i == LastIndex(host, <<":">>)
      openBracketIdx == LastIndex(host, <<"[">>)
      closeBracketIdx == LastIndex(host, <<"]">>)
      colonPort == SubSeq(host, closeBracketIdx + 1, Len(host))
      hostname == SubSeq(host, openBracketIdx + 1, closeBracketIdx - 1)
  IN
    IF openBracketIdx # 0
    THEN IF closeBracketIdx = 0 \/ ~validOptionalPort(colonPort)
         THEN [err |-> TRUE, host |-> <<>>]
         ELSE IF ParseIP(hostname) = Nil \/ Is4(hostname)
         THEN [err |-> TRUE, host |-> <<>>]
         ELSE [err |-> FALSE,
               host |-> <<"[">> \o hostname \o <<"]">> \o colonPort]
    ELSE IF i # 0 /\ ~validOptionalPort(SubSeq(host, i, Len(host)))
    THEN [err |-> TRUE, host |-> <<>>]
    ELSE IF \E j \in 1..Len(host) : host[j] = " "
    THEN [err |-> TRUE, host |-> <<>>]
    ELSE [err |-> FALSE, host |-> host]

\* url.Parse: [err, host]
UrlParse(rawURL) ==
  LET g == getScheme(rawURL, 1) IN
    IF g.err THEN [err |-> TRUE, host |-> <<>>]
    ELSE IF ~HasPrefix(g.rest, <<"/">>)
    THEN IF g.scheme # <<>> THEN [err |-> FALSE, host |-> <<>>]
         ELSE LET j == Index(g.rest, <<"/">>)
                  segment == IF j = 0 THEN g.rest ELSE SubSeq(g.rest, 1, j - 1)
              IN [err |-> Contains(segment, <<":">>), host |-> <<>>]
    ELSE IF (g.scheme # <<>> \/ ~HasPrefix(g.rest, <<"/", "/", "/">>))
            /\ HasPrefix(g.rest, <<"/", "/">>)
    THEN LET auth0 == SubSeq(g.rest, 3, Len(g.rest))
             j == Index(auth0, <<"/">>)
             authority == IF j = 0 THEN auth0 ELSE SubSeq(auth0, 1, j - 1)
         IN parseHost(authority)
    ELSE [err |-> FALSE, host |-> <<>>]

SchemeSep == <<":", "/", "/">>

HttpPrefix == <<"h", "t", "t", "p", ":", "/", "/">>

\* ------------------------------------------------------------------------
\* package domain
\* ------------------------------------------------------------------------

BlockingTypeUnknown == 0
BlockingTypeDomain == 1
BlockingTypeWildcard == 2
BlockingTypeIP == 3
BlockingTypeURLPath == 4
BlockingTypeSNI == 5

MaxDomainLen == 253
MaxLabelLen == 63

\* domain.IsValidDomain
IsValidDomain(domain) ==
  /\ domain # <<>>
  /\ Len(domain) <= MaxDomainLen
  /\ ~HasPrefix(domain, <<".">>)
  /\ ~HasSuffix(domain, <<".">>)
  /\ LET parts == SplitDot(domain) IN
       /\ Len(parts) >= 2
       /\ \A i \in 1..Len(parts) :
            /\ parts[i] # <<>>
            /\ Len(parts[i]) <= MaxLabelLen
            /\ ~HasPrefix(parts[i], <<"-">>)
            /\ ~HasSuffix(parts[i], <<"-">>)

\* domain.IsValidIP
IsValidIP(ip) == ParseIP(ip) # Nil

\* BlockingRule.validate: the error, "nil" when the rule is valid
validate(ruleType, pattern) ==
  CASE ruleType = BlockingTypeDomain ->
         IF IsValidDomain(pattern) THEN "nil" ELSE "ErrInvalidDomain"
    [] ruleType = BlockingTypeWildcard ->
         IF IsValidDomain(TrimPrefix(pattern, <<"*", ".">>))
         THEN "nil" ELSE "ErrInvalidDomain"
    [] ruleType = BlockingTypeIP ->
         IF IsValidIP(pattern) THEN "nil" ELSE "ErrInvalidIP"
    [] ruleType = BlockingTypeURLPath ->
         IF pattern = <<>> THEN "ErrBlockingRuleInvalid" ELSE "nil"
    [] ruleType = BlockingTypeSNI ->
         IF IsValidDomain(pattern) THEN "nil" ELSE "ErrInvalidDomain"
    [] OTHER -> "ErrBlockingRuleInvalid"

\* domain.NewBlockingRule: [rule, err]
NewBlockingRule(ruleType, pattern) ==
  IF pattern = <<>> THEN [rule |-> Nil, err |-> "ErrBlockingRuleInvalid"]
  ELSE IF validate(ruleType, pattern) # "nil"
  THEN [rule |-> Nil, err |-> validate(ruleType, pattern)]
  ELSE [rule |-> [Type |-> ruleType, Pattern |-> pattern, Original |-> pattern],
        err |-> "nil"]

\* a RegistryEntry, as far as the index reads it
Entry(type, dom, ip, url) == [Type |-> type, Domain |-> dom, IP |-> ip, URL |-> url]

\* domain.NewRegistryEntry: [entry, err]
NewRegistryEntry(entryType, value) ==
  IF value = <<>> THEN [entry |-> Nil, err |-> "ErrRegistryEntryInvalid"]
  ELSE IF entryType \in {BlockingTypeDomain, BlockingTypeWildcard, BlockingTypeSNI}
  THEN IF ~IsValidDomain(value) /\ ~HasPrefix(value, <<"*", ".">>)
       THEN [entry |-> Nil, err |-> "ErrInvalidDomain"]
       ELSE [entry |-> Entry(entryType, value, <<>>, <<>>), err |-> "nil"]
  ELSE IF entryType = BlockingTypeIP
  THEN IF ~IsValidIP(value)
       THEN [entry |-> Nil, err |-> "ErrInvalidIP"]
       ELSE [entry |-> Entry(entryType, <<>>, value, <<>>), err |-> "nil"]
  ELSE IF entryType = BlockingTypeURLPath
  THEN [entry |-> Entry(entryType, <<>>, <<>>, value), err |-> "nil"]
  ELSE [entry |-> Nil, err |-> "ErrRegistryEntryInvalid"]

\* RegistryEntry.ToBlockingRule: [rule, err]
ToBlockingRule(re) ==
  IF re.Type \in {BlockingTypeDomain, BlockingTypeWildcard, BlockingTypeSNI}
  THEN NewBlockingRule(re.Type, re.Domain)
  ELSE IF re.Type = BlockingTypeIP THEN NewBlockingRule(re.Type, re.IP)
  ELSE IF re.Type = BlockingTypeURLPath THEN NewBlockingRule(re.Type, re.URL)
  ELSE [rule |-> Nil, err |-> "ErrBlockingRuleInvalid"]

\* RegistryEntry.IsValid
EntryIsValid(re) ==
  IF re.Type \in {BlockingTypeDomain, BlockingTypeWildcard, BlockingTypeSNI}
  THEN re.Domain # <<>>
  ELSE IF re.Type = BlockingTypeIP THEN re.IP # <<>>
  ELSE IF re.Type = BlockingTypeURLPath THEN re.URL # <<>>
  ELSE FALSE

\* a domain.URL value: [original, normalized]; &domain.URL{} is EmptyURL
EmptyURL == [original |-> <<>>, normalized |-> <<>>]

\* URL.IsValid
URLIsValid(u) == u.original # <<>> /\ u.normalized # <<>>

\* BlockingRule.Matches
Matches(br, url) ==
  IF url = Nil \/ ~URLIsValid(url) THEN FALSE
  ELSE
    CASE br.Type \in {BlockingTypeDomain, BlockingTypeIP, BlockingTypeSNI} ->
           url.normalized = br.Pattern
      [] br.Type = BlockingTypeWildcard ->
           LET domain == TrimPrefix(br.Pattern, <<"*", ".">>) IN
             url.normalized = domain \/ HasSuffix(url.normalized, <<".">> \o domain)
      [] br.Type = BlockingTypeURLPath -> HasPrefix(url.normalized, br.Pattern)
      [] OTHER -> FALSE

\* domain.NewBlockingResult (CheckedAt left out)
NewBlockingResult(isBlocked, normalizedURL, rule) ==
  [IsBlocked |-> isBlocked, NormalizedURL |-> normalizedURL, Rule |-> rule,
   Reason |-> IF rule # Nil THEN rule.Type ELSE BlockingTypeUnknown]

\* ------------------------------------------------------------------------
\* URLNormalizer
\* ------------------------------------------------------------------------

\* strings.TrimSpace; the space is the only white space of the alphabet
RECURSIVE TrimSpace(_)
TrimSpace(s) ==
  IF s # <<>> /\ s[1] = " " THEN TrimSpace(Tail(s))
  ELSE IF s # <<>> /\ s[Len(s)] = " " THEN TrimSpace(SubSeq(s, 1, Len(s) - 1))
  ELSE s

\* URLNormalizer.removePort; portRegex is `:\d+$`
removePort(host) ==
  IF Contains(host, <<":">>) /\ ~Contains(host, <<":", ":">>)
  THEN LET idx == LastIndex(host, <<":">>)
           portPart == SubSeq(host, idx, Len(host))
       IN IF Len(portPart) >= 2
             /\ \A i \in 2..Len(portPart) : portPart[i] \in Digits
          THEN SubSeq(host, 1, idx - 1)
          ELSE host
  ELSE host

\* idna.Profile.ToASCII with ValidateLabels, VerifyDNSLength and without
\* StrictDomainName, on the ASCII alphabet of the model (no "xn--" label
\* can be written in it): the name is returned unchanged, or refused for
\* an empty name, an empty label that the label iterator does not step
\* over, a label with '-' at its ends or at both its 3rd and 4th position,
\* a label longer than 63 or a name longer than 253.  The iterator steps
\* over an empty last label, and from the second label on over the empty
\* label before a last dot (labelIter.next).
idnaToASCII(host) ==
  LET labels == SplitDot(host)
      n == IF host # <<>> /\ host[Len(host)] = "." THEN Len(host) - 1
           ELSE Len(host)
      skipped(i) ==
        \/ i = Len(labels)
        \/ i > 1 /\ i = Len(labels) - 1 /\ labels[Len(labels)] = <<>>
      bad(i) ==
        LET l == labels[i] IN
          IF l = <<>> THEN ~skipped(i)
          ELSE \/ Len(l) > 4 /\ l[3] = "-" /\ l[4] = "-"
               \/ l[1] = "-"
               \/ l[Len(l)] = "-"
               \/ Len(l) > MaxLabelLen
  IN IF host = <<>> \/ (\E i \in 1..Len(labels) : bad(i)) \/ n > MaxDomainLen
     THEN [err |-> TRUE, ascii |-> <<>>]
     ELSE [err |-> FALSE, ascii |-> host]

\* URLNormalizer.normalizeDomain: [key, err]; wwwRegex is `^www\.`
normalizeDomain(host) ==
  LET a == idnaToASCII(host) IN
    IF a.err THEN [key |-> <<>>, err |-> "ErrNormalizationFailed"]
    ELSE
      LET lower == ToLower(a.ascii)
          www == <<"w", "w", "w", ".">>
          normalized ==
            IF HasPrefix(lower, www) /\ IsValidDomain(TrimPrefix(lower, www))
            THEN TrimPrefix(lower, www) ELSE lower
      IN IF ~IsValidDomain(normalized)
         THEN [key |-> <<>>, err |-> "ErrInvalidDomain"]
         ELSE [key |-> normalized, err |-> "nil"]

\* URLNormalizer.normalizeIP
normalizeIP(ip) == IPString(ip)

\* strings.Trim(host, "[]")
RECURSIVE TrimBrackets(_)
TrimBrackets(host) ==
  IF host # <<>> /\ host[1] \in {"[", "]"} THEN TrimBrackets(Tail(host))
  ELSE IF host # <<>> /\ host[Len(host)] \in {"[", "]"}
  THEN TrimBrackets(SubSeq(host, 1, Len(host) - 1))
  ELSE host

\* URLNormalizer.Normalize: [key, err]
Normalize(rawURL) ==
  IF rawURL = <<>> THEN [key |-> <<>>, err |-> "ErrEmptyURL"]
  ELSE
    LET trimmed == TrimSpace(rawURL)
        raw1 == IF ~Contains(trimmed, SchemeSep) THEN HttpPrefix \o trimmed
                ELSE trimmed
        parsed == UrlParse(raw1)
    IN
    IF parsed.err \/ parsed.host = <<>>
    THEN [key |-> <<>>, err |-> "ErrInvalidURL"]
    ELSE
      LET host == ToLower(removePort(parsed.host)) IN
        IF ParseIP(host) # Nil
        THEN [key |-> normalizeIP(ParseIP(host)), err |-> "nil"]
        ELSE IF HasPrefix(host, <<"[">>) /\ HasSuffix(host, <<"]">>)
        THEN IF ParseIP(TrimBrackets(host)) # Nil
             THEN [key |-> normalizeIP(ParseIP(TrimBrackets(host))),
                   err |-> "nil"]
             ELSE [key |-> <<>>, err |-> "ErrInvalidIP"]
        ELSE normalizeDomain(host)

\* ------------------------------------------------------------------------
\* MemoryStore
\* ------------------------------------------------------------------------

\* storage.extractDomainFromURL
extractDomainFromURL(rawURL) ==
  IF rawURL = <<>> THEN <<>>
  ELSE CHOOSE v \in {IF parsed.err THEN <<>> ELSE parsed.host :
              parsed \in {UrlParse(IF ~Contains(rawURL, SchemeSep)
                                   THEN HttpPrefix \o rawURL
                                   ELSE rawURL)}} : TRUE

\* m[key] = value on a Go map
MapPut(m, key, value) == (key :> value) @@ m

\* the five structures Update builds, before any entry is indexed
NewSnapshot(n) ==
  [domains |-> <<>>, wildcards |-> NewRadixTree, ips |-> <<>>,
   urlPatterns |-> <<>>, bloom |-> NewBloomFilter(n)]

\* indexEntry without the newBloom.Add(pattern) of the wildcard case
indexEntryNoWildcardBloom(new, entry) ==
  LET r == ToBlockingRule(entry) IN
  IF r.err # "nil" THEN new
  ELSE
    CASE entry.Type \in {BlockingTypeDomain, BlockingTypeSNI} ->
           [new EXCEPT !.domains = MapPut(@, entry.Domain, r.rule),
                       !.bloom = BloomAdd(@, entry.Domain)]
      [] entry.Type = BlockingTypeWildcard ->
           [new EXCEPT !.wildcards =
                         RadixInsert(@, TrimPrefix(entry.Domain, S_star), r.rule)]
      [] entry.Type = BlockingTypeIP ->
           [new EXCEPT !.ips = MapPut(@, entry.IP, r.rule),
                       !.bloom = BloomAdd(@, entry.IP)]
      [] entry.Type = BlockingTypeURLPath ->
           CHOOSE v \in {IF domain = <<>> THEN new
                ELSE [new EXCEPT
                        !.urlPatterns =
                           MapPut(@, domain,
                                  IF domain \in DOMAIN @
                                  THEN Append(@[domain], r.rule)
                                  ELSE <<r.rule>>),
                        !.bloom = BloomAdd(@, domain)] :
                domain \in {extractDomainFromURL(entry.URL)}} : TRUE
      [] OTHER -> new

\* the body of the loop of MemoryStore.Update for one entry
indexEntry(new, entry) ==
  LET r == ToBlockingRule(entry) IN
  IF r.err # "nil" THEN new
  ELSE
    CASE entry.Type \in {BlockingTypeDomain, BlockingTypeSNI} ->
           [new EXCEPT !.domains = MapPut(@, entry.Domain, r.rule),
                       !.bloom = BloomAdd(@, entry.Domain)]
      [] entry.Type = BlockingTypeWildcard ->
           LET pattern == TrimPrefix(entry.Domain, S_star) IN
             [new EXCEPT !.wildcards = RadixInsert(@, pattern, r.rule),
                         !.bloom = BloomAdd(@, pattern)]
      [] entry.Type = BlockingTypeIP ->
           [new EXCEPT !.ips = MapPut(@, entry.IP, r.rule),
                       !.bloom = BloomAdd(@, entry.IP)]
      [] entry.Type = BlockingTypeURLPath ->
           CHOOSE v \in {IF domain = <<>> THEN new
                ELSE [new EXCEPT
                        !.urlPatterns =
                           MapPut(@, domain,
                                  IF domain \in DOMAIN @
                                  THEN Append(@[domain], r.rule)
                                  ELSE <<r.rule>>),
                        !.bloom = BloomAdd(@, domain)] :
                domain \in {extractDomainFromURL(entry.URL)}} : TRUE
      [] OTHER -> new

\* the loop of Update with a break in the place of the continue
RECURSIVE indexEntriesBreak(_, _, _)
indexEntriesBreak(new, entries, i) ==
  IF i > Len(entries) THEN new
  ELSE IF ToBlockingRule(entries[i]).err # "nil" THEN new
  ELSE indexEntriesBreak(indexEntry(new, entries[i]), entries, i + 1)

\* the loop over registry.Entries of MemoryStore.Update
RECURSIVE indexEntries(_, _, _)
indexEntries(new, entries, i) ==
  IF i > Len(entries) THEN new
  ELSE indexEntries(indexEntry(new, entries[i]), entries, i + 1)

\* the structures MemoryStore.Update builds from a registry
buildSnapshot(registry) ==
  indexEntries(NewSnapshot(Len(registry.Entries)), registry.Entries, 1)

\* the first rule of patterns that matches the empty URL, or Nil
RECURSIVE firstMatch(_, _)
firstMatch(patterns, i) ==
  IF i > Len(patterns) THEN Nil
  ELSE IF Matches(patterns[i], EmptyURL) THEN patterns[i]
  ELSE firstMatch(patterns, i + 1)

\* IsBlocked without the bloom fast path
IsBlockedOnNoFastPath(s, normalizedURL) ==
  IF normalizedURL = <<>> THEN NewBlockingResult(FALSE, normalizedURL, Nil)
  ELSE IF normalizedURL \in DOMAIN s.domains
  THEN NewBlockingResult(TRUE, normalizedURL, s.domains[normalizedURL])
  ELSE IF normalizedURL \in DOMAIN s.ips
  THEN NewBlockingResult(TRUE, normalizedURL, s.ips[normalizedURL])
  ELSE IF MatchesWildcard(s.wildcards, normalizedURL).exists
  THEN NewBlockingResult(TRUE, normalizedURL,
                         MatchesWildcard(s.wildcards, normalizedURL).value)
  ELSE IF normalizedURL \in DOMAIN s.urlPatterns
          /\ firstMatch(s.urlPatterns[normalizedURL], 1) # Nil
  THEN NewBlockingResult(TRUE, normalizedURL,
                         firstMatch(s.urlPatterns[normalizedURL], 1))
  ELSE NewBlockingResult(FALSE, normalizedURL, Nil)

\* IsBlocked consulting the wildcard tree before the exact maps
IsBlockedOnWildcardFirst(s, normalizedURL) ==
  IF normalizedURL = <<>> THEN NewBlockingResult(FALSE, normalizedURL, Nil)
  ELSE IF ~BloomContains(s.bloom, normalizedURL)
  THEN NewBlockingResult(FALSE, normalizedURL, Nil)
  ELSE IF MatchesWildcard(s.wildcards, normalizedURL).exists
  THEN NewBlockingResult(TRUE, normalizedURL,
                         MatchesWildcard(s.wildcards, normalizedURL).value)
  ELSE IF normalizedURL \in DOMAIN s.domains
  THEN NewBlockingResult(TRUE, normalizedURL, s.domains[normalizedURL])
  ELSE IF normalizedURL \in DOMAIN s.ips
  THEN NewBlockingResult(TRUE, normalizedURL, s.ips[normalizedURL])
  ELSE IF normalizedURL \in DOMAIN s.urlPatterns
          /\ firstMatch(s.urlPatterns[normalizedURL], 1) # Nil
  THEN NewBlockingResult(TRUE, normalizedURL,
                         firstMatch(s.urlPatterns[normalizedURL], 1))
  ELSE NewBlockingResult(FALSE, normalizedURL, Nil)

\* MemoryStore.IsBlocked on the structures s
IsBlockedOn(s, normalizedURL) ==
  IF normalizedURL = <<>> THEN NewBlockingResult(FALSE, normalizedURL, Nil)
  ELSE IF ~BloomContains(s.bloom, normalizedURL)
  THEN NewBlockingResult(FALSE, normalizedURL, Nil)
  ELSE IF normalizedURL \in DOMAIN s.domains
  THEN NewBlockingResult(TRUE, normalizedURL, s.domains[normalizedURL])
  ELSE IF normalizedURL \in DOMAIN s.ips
  THEN NewBlockingResult(TRUE, normalizedURL, s.ips[normalizedURL])
  ELSE IF MatchesWildcard(s.wildcards, normalizedURL).exists
  THEN NewBlockingResult(TRUE, normalizedURL,
                         MatchesWildcard(s.wildcards, normalizedURL).value)
  ELSE IF normalizedURL \in DOMAIN s.urlPatterns
          /\ firstMatch(s.urlPatterns[normalizedURL], 1) # Nil
  THEN NewBlockingResult(TRUE, normalizedURL,
                         firstMatch(s.urlPatterns[normalizedURL], 1))
  ELSE NewBlockingResult(FALSE, normalizedURL, Nil)

\* ------------------------------------------------------------------------
\* Inputs
\* ------------------------------------------------------------------------

\* the readings of time.Now() at a write; the store is constructed at 0
Times == {1}

E_Domain == Entry(BlockingTypeDomain, S_abc, <<>>, <<>>)
E_WildBC == Entry(BlockingTypeWildcard, S_star \o S_bc, <<>>, <<>>)
E_WildABC == Entry(BlockingTypeWildcard, S_star \o S_abc, <<>>, <<>>)
E_IP == Entry(BlockingTypeIP, <<>>, S_ip, <<>>)
E_URL == Entry(BlockingTypeURLPath, <<>>, <<>>, S_dc \o S_path)
E_URLNoHost == Entry(BlockingTypeURLPath, <<>>, <<>>, S_path)
E_Upper == Entry(BlockingTypeDomain, S_Bc, <<>>, <<>>)
E_Bad == Entry(BlockingTypeWildcard, S_star \o S_bcBad, <<>>, <<>>)

\* the entries registries are made of: NewRegistryEntry accepts each of
\* them; E_Bad is the one whose rule construction fails
EntryPool ==
  {E_Domain, E_WildBC, E_WildABC, E_IP, E_URL, E_URLNoHost, E_Upper, E_Bad}

RECURSIVE SeqsUpTo(_, _)
SeqsUpTo(S, n) ==
  IF n = 0 THEN {<<>>}
  ELSE LET shorter == SeqsUpTo(S, n - 1) IN
         shorter \cup {Append(q, e) : q \in shorter, e \in S}

\* the non-nil registries passed to Update
Registries ==
  {[Entries |-> es, Version |-> "v1"] : es \in SeqsUpTo(EntryPool, MaxEntries)}

\* buildSnapshot, tabulated once for the registries of the model
SnapshotTable == [registry \in Registries |-> buildSnapshot(registry)]

BuildSnapshot(registry) ==
  IF registry \in Registries THEN SnapshotTable[registry]
  ELSE buildSnapshot(registry)

\* the keys passed to IsBlocked
Keys == {<<>>, S_abc, S_bc, S_dabc, S_dbc, S_dc, S_Bc, S_ip}

\* ------------------------------------------------------------------------
\* State
\* ------------------------------------------------------------------------

VARIABLES
  domains,      \* ms.domains
  wildcards,    \* ms.wildcards
  ips,          \* ms.ips
  urlPatterns,  \* ms.urlPatterns
  bloom,        \* ms.bloom
  lastUpdate,   \* ms.lastUpdate
  entryCount,   \* ms.entryCount
  version,      \* ms.version
  current,      \* history: what the store was last made from
  lastOp,       \* the last call on the store, its argument and its return
  mu,           \* ms.mu: the goroutines holding the read lock, the writer
  g,            \* the goroutines calling the store concurrently
  installed,    \* history: the complete snapshots the store has held
  sched,        \* the Scheduler's state fields under s.mu
  cfg,          \* the Scheduler's configuration
  ch,           \* s.stopCh, s.doneCh, s.triggerCh
  loops,        \* the run goroutines, one per accepted Start
  ctl,          \* the goroutines calling Start, Stop, TriggerUpdate
  panicked,     \* the run-time panic that ended the process, if any
  clock,        \* time.Now()
  lastCall,     \* the last call on the scheduler or the client and its return
  client,       \* the registry Client: its sources and its state
  source,       \* a Source: its configuration, health cache and mutex
  srcCalls      \* the goroutines calling Fetch and IsHealthy on the source

storeVars ==
  <<domains, wildcards, ips, urlPatterns, bloom, lastUpdate, entryCount, version>>

seqVars == <<current, lastOp>>

concVars == <<mu, g, installed>>

updaterVars ==
  <<sched, cfg, client, source, srcCalls, ch, loops, ctl, panicked, clock,
    lastCall>>

vars == <<storeVars, seqVars, concVars, updaterVars>>

\* the five lookup structures of the store
Live ==
  [domains |-> domains, wildcards |-> wildcards, ips |-> ips,
   urlPatterns |-> urlPatterns, bloom |-> bloom]

\* the goroutines of the concurrent specification
Goroutines == {"g1", "g2"}

\* the registries and keys of the concurrent calls
ConcRegistries ==
  {[Entries |-> <<E_Domain, E_WildBC>>, Version |-> "v1"],
   [Entries |-> <<E_WildABC>>, Version |-> "v1"]}

ConcKeys == {<<>>, S_abc}

\* a goroutine that is not inside a call
Idle ==
  [pc |-> "idle", op |-> "none", arg |-> Nil, new |-> Nil, ret |-> Nil,
   seen |-> Nil]

\* the goroutines that call the scheduler's methods
Controllers == {"c1", "c2"}

\* OfficialSource.Name
OfficialName == "Official RKN API"

\* time.Time{}: the lastHealth of a source that was never checked
ZeroTime == 0

\* NewGitHubSource(config) and NewOfficialSource(config) with
\* config.MaxRetries = maxRetries
NewSource(kind, maxRetries) ==
  [kind |-> kind, maxRetries |-> maxRetries, healthy |-> TRUE,
   lastHealth |-> ZeroTime, mu |-> [readers |-> {}, writer |-> "none"]]

\* DefaultSourceConfigs()[SourceTypeOfficial].MaxRetries
OfficialMaxRetries == 2

SourceTypeGitHub == "github"

SourceTypeOfficial == "official"

\* Client.createSource for a SourceConfig of the given type: [source, err]
createSource(type) ==
  IF type = SourceTypeOfficial
  THEN [source |-> NewSource("official", OfficialMaxRetries), err |-> "nil"]
  ELSE [source |-> Nil, err |-> "unsupported source type"]

\* a Client: the names of its sources in order, the sources themselves
\* (srcState: the OfficialSource, Nil for a mockSource, which keeps no
\* health cache), its state, and the history of which source succeeded
\* last (lastSource, 0: none)
ClientOf(names, states) ==
  [sources |-> names, srcState |-> states, lastSuccessfulSource |-> "",
   consecutiveFailures |-> 0, lastSource |-> 0]

\* NewClient(config) for config.Sources of the given types: [client, err]
NewClient(types) ==
  IF Len(types) = 0
  THEN [client |-> Nil, err |-> "at least one source must be configured"]
  ELSE IF \E k \in DOMAIN types : createSource(types[k]).err # "nil"
  THEN [client |-> Nil, err |-> "creating source"]
  ELSE [client |-> ClientOf([k \in DOMAIN types |-> OfficialName],
                            [k \in DOMAIN types |->
                               createSource(types[k]).source]),
        err |-> "nil"]

\* &Client{sources: []Source{...}} of the client tests, on mockSources of
\* the given names
TestClient(names) == ClientOf(names, [k \in DOMAIN names |-> Nil])

\* &mockRegistryClient{} of the scheduler tests
MockRegistryClient == [callCount |-> 0]

\* a nil error
NilError == <<>>

\* fmt.Errorf("all retry attempts failed, last error: %w", lastErr)
AllRetriesFailed(lastErr) == <<"all retry attempts failed", lastErr>>

\* updateCtx.Err() of a context that is done
ContextDone == <<"context done">>

\* NewScheduler(client, store, config): nothing runs, the channels are open
\* and triggerCh (capacity 1) is empty; lastUpdate 0 is the zero time.Time
NewScheduler(cl, config) ==
  /\ sched = [running |-> FALSE, lastUpdate |-> 0, lastError |-> NilError,
              consecutiveFailures |-> 0, totalUpdates |-> 0,
              successfulUpdates |-> 0]
  /\ cfg = config
  /\ client = cl
  /\ ch = [stopCh |-> "open", doneCh |-> "open", triggerCh |-> 0]
  /\ loops = <<>>
  /\ ctl = [c \in Controllers |-> "idle"]
  /\ panicked = "none"
  /\ lastCall = [op |-> "NewScheduler"]

\* the client of one official source
OfficialClient == NewClient(<<SourceTypeOfficial>>).client

\* the configuration of the tests of the scheduler: one attempt per update
TestConfig == [interval |-> 1, maxRetries |-> 1]

\* the call frame of a goroutine that is not in a call on the source
IdleCall ==
  [pc |-> "idle", op |-> "none", at |-> 0, attempt |-> 0, tries |-> <<>>,
   probe |-> "none", seenHealthy |-> FALSE, seenLast |-> 0,
   pending |-> FALSE, setLast |-> FALSE, stamp |-> 0, ret |-> "none",
   err |-> "nil", cause |-> "nil"]

\* an official source on its own, as the source tests make one, with no
\* call in progress
InitOfficialSource ==
  /\ source = NewSource("official", OfficialMaxRetries)
  /\ srcCalls = [t \in {"s1"} |-> IdleCall]

InitStore ==
  /\ mu = [readers |-> {}, writer |-> "none"]
  /\ g = [t \in Goroutines |-> Idle]
  /\ installed = {NewSnapshot(DefaultBloomN)}
  /\ domains = <<>>
  /\ wildcards = NewRadixTree
  /\ ips = <<>>
  /\ urlPatterns = <<>>
  /\ bloom = NewBloomFilter(DefaultBloomN)
  /\ lastUpdate = 0
  /\ entryCount = 0
  /\ version = ""
  /\ current = [kind |-> "new", registry |-> Nil]
  /\ lastOp = [op |-> "NewMemoryStore"]

\* a new store, and a new scheduler that is never started
Init == InitStore /\ InitOfficialSource /\ NewScheduler(OfficialClient, TestConfig) /\ clock = 1

\* Update(nil) that takes nil for an empty registry before it fails
UpdateNilSwapsFirst ==
  /\ domains' = <<>>
  /\ wildcards' = NewRadixTree
  /\ ips' = <<>>
  /\ urlPatterns' = <<>>
  /\ bloom' = NewBloomFilter(0)
  /\ entryCount' = 0
  /\ lastOp' = [op |-> "Update", nilRegistry |-> TRUE,
                err |-> "ErrRegistryEntryInvalid"]
  /\ UNCHANGED <<lastUpdate, version, current, concVars, updaterVars>>

\* MemoryStore.Update(nil)
UpdateNil ==
  /\ lastOp' = [op |-> "Update", nilRegistry |-> TRUE,
                err |-> "ErrRegistryEntryInvalid"]
  /\ UNCHANGED <<storeVars, current, concVars, updaterVars>>

\* MemoryStore.Update(registry), registry # nil, at time now
UpdateStore(registry, now) ==
  \E new \in {BuildSnapshot(registry)} :
    /\ domains' = new.domains
    /\ wildcards' = new.wildcards
    /\ ips' = new.ips
    /\ urlPatterns' = new.urlPatterns
    /\ bloom' = new.bloom
    /\ lastUpdate' = now
    /\ version' = registry.Version
    /\ entryCount' = Len(registry.Entries)
    /\ current' = [kind |-> "updated", registry |-> registry]
    /\ lastOp' = [op |-> "Update", nilRegistry |-> FALSE, err |-> "nil"]

\* a call of MemoryStore.Update on its own
Update(registry, now) ==
  UpdateStore(registry, now) /\ UNCHANGED <<concVars, updaterVars>>

\* MemoryStore.Clear at time now
Clear(now) ==
  /\ domains' = <<>>
  /\ wildcards' = RadixClear(wildcards)
  /\ ips' = <<>>
  /\ urlPatterns' = <<>>
  /\ bloom' = BloomClear(bloom)
  /\ entryCount' = 0
  /\ lastUpdate' = now
  /\ current' = [kind |-> "cleared", registry |-> Nil]
  /\ lastOp' = [op |-> "Clear"]
  /\ UNCHANGED <<version, concVars, updaterVars>>

\* MemoryStore.Stats
Stats ==
  [TotalEntries |-> entryCount,
   DomainEntries |-> Cardinality(DOMAIN domains),
   WildcardEntries |-> wildcards.size,
   IPEntries |-> Cardinality(DOMAIN ips),
   URLPatterns |-> Cardinality(DOMAIN urlPatterns),
   LastUpdate |-> lastUpdate,
   Version |-> version]

\* MemoryStore.IsBlocked(normalizedURL)
IsBlocked(normalizedURL) ==
  /\ lastOp' = [op |-> "IsBlocked", key |-> normalizedURL,
                result |-> IsBlockedOn(Live, normalizedURL)]
  /\ UNCHANGED <<storeVars, current, concVars, updaterVars>>

Next ==
  \/ UpdateNil
  \/ \E registry \in Registries, now \in Times :
       now >= lastUpdate /\ Update(registry, now)
  \/ \E now \in Times : now >= lastUpdate /\ Clear(now)
  \/ \E key \in Keys : IsBlocked(key)

Spec == Init /\ [][Next]_vars

\* ------------------------------------------------------------------------
\* The same calls, made by concurrent goroutines, one shared access a step
\* ------------------------------------------------------------------------

\* sync.RWMutex.RLock can proceed
CanRLock == mu.writer = "none"

\* a write lock that does not wait for the readers to leave
CanLockIgnoringReaders == mu.writer = "none"

\* sync.RWMutex.Lock can proceed
CanLock == mu.writer = "none" /\ mu.readers = {}

Goto(t, label) == g' = [g EXCEPT ![t].pc = label]

\* the goroutine returns ret from under the deferred RUnlock
ReadDone(t, ret) == g' = [g EXCEPT ![t].pc = "runlock", ![t].ret = ret]

\* IsBlocked is called: the empty key returns without the lock
CallIsBlocked(t, key) ==
  /\ g[t].pc = "idle"
  /\ g' = [g EXCEPT ![t] =
             IF key = <<>>
             THEN [Idle EXCEPT !.pc = "returned", !.op = "IsBlocked", !.arg = key,
                               !.ret = NewBlockingResult(FALSE, key, Nil)]
             ELSE [Idle EXCEPT !.pc = "rlock", !.op = "IsBlocked", !.arg = key]]
  /\ UNCHANGED <<storeVars, seqVars, updaterVars, mu, installed>>

\* ms.mu.RLock()
RLock(t) ==
  /\ g[t].pc = "rlock"
  /\ CanRLock
  /\ mu' = [mu EXCEPT !.readers = @ \cup {t}]
  /\ g' = [g EXCEPT ![t].pc = "bloom", ![t].seen = Live]
  /\ UNCHANGED <<storeVars, seqVars, updaterVars, installed>>

\* if !ms.bloom.Contains(normalizedURL)
ReadBloom(t) ==
  /\ g[t].pc = "bloom"
  /\ IF ~BloomContains(bloom, g[t].arg)
     THEN ReadDone(t, NewBlockingResult(FALSE, g[t].arg, Nil))
     ELSE Goto(t, "domains")
  /\ UNCHANGED <<storeVars, seqVars, updaterVars, mu, installed>>

\* if rule, exists := ms.domains[normalizedURL]
ReadDomains(t) ==
  /\ g[t].pc = "domains"
  /\ IF g[t].arg \in DOMAIN domains
     THEN ReadDone(t, NewBlockingResult(TRUE, g[t].arg, domains[g[t].arg]))
     ELSE Goto(t, "ips")
  /\ UNCHANGED <<storeVars, seqVars, updaterVars, mu, installed>>

\* if rule, exists := ms.ips[normalizedURL]
ReadIPs(t) ==
  /\ g[t].pc = "ips"
  /\ IF g[t].arg \in DOMAIN ips
     THEN ReadDone(t, NewBlockingResult(TRUE, g[t].arg, ips[g[t].arg]))
     ELSE Goto(t, "wildcards")
  /\ UNCHANGED <<storeVars, seqVars, updaterVars, mu, installed>>

\* if value, exists := ms.wildcards.MatchesWildcard(normalizedURL)
ReadWildcards(t) ==
  /\ g[t].pc = "wildcards"
  /\ LET m == MatchesWildcard(wildcards, g[t].arg) IN
       IF m.exists
       THEN ReadDone(t, NewBlockingResult(TRUE, g[t].arg, m.value))
       ELSE Goto(t, "urlPatterns")
  /\ UNCHANGED <<storeVars, seqVars, updaterVars, mu, installed>>

\* if patterns, exists := ms.urlPatterns[normalizedURL], and the final return
ReadURLPatterns(t) ==
  /\ g[t].pc = "urlPatterns"
  /\ LET rule == IF g[t].arg \in DOMAIN urlPatterns
                 THEN firstMatch(urlPatterns[g[t].arg], 1) ELSE Nil
     IN ReadDone(t, NewBlockingResult(rule # Nil, g[t].arg, rule))
  /\ UNCHANGED <<storeVars, seqVars, updaterVars, mu, installed>>

\* defer ms.mu.RUnlock()
RUnlock(t) ==
  /\ g[t].pc = "runlock"
  /\ mu' = [mu EXCEPT !.readers = @ \ {t}]
  /\ Goto(t, "returned")
  /\ UNCHANGED <<storeVars, seqVars, updaterVars, installed>>

\* Update is called: nil is refused, otherwise the new structures are built
\* on private state
CallUpdate(t, registry) ==
  /\ g[t].pc = "idle"
  /\ g' = [g EXCEPT ![t] =
             IF registry = Nil
             THEN [Idle EXCEPT !.pc = "returned", !.op = "Update",
                               !.ret = "ErrRegistryEntryInvalid"]
             ELSE [Idle EXCEPT !.pc = "lock", !.op = "Update", !.arg = registry,
                               !.new = BuildSnapshot(registry)]]
  /\ UNCHANGED <<storeVars, seqVars, updaterVars, mu, installed>>

\* Clear is called
CallClear(t) ==
  /\ g[t].pc = "idle"
  /\ g' = [g EXCEPT ![t] = [Idle EXCEPT !.pc = "lock", !.op = "Clear"]]
  /\ UNCHANGED <<storeVars, seqVars, updaterVars, mu, installed>>

\* ms.mu.Lock()
Lock(t) ==
  /\ g[t].pc = "lock"
  /\ CanLock
  /\ mu' = [mu EXCEPT !.writer = t]
  /\ Goto(t, "w_domains")
  /\ UNCHANGED <<storeVars, seqVars, updaterVars, installed>>

\* ms.domains = newDomains  /  ms.domains = make(map...)
WriteDomains(t) ==
  /\ g[t].pc = "w_domains"
  /\ domains' = IF g[t].op = "Update" THEN g[t].new.domains ELSE <<>>
  /\ Goto(t, "w_wildcards")
  /\ UNCHANGED <<wildcards, ips, urlPatterns, bloom, lastUpdate, entryCount,
                 version, seqVars, updaterVars, mu, installed>>

\* ms.wildcards = newWildcards  /  ms.wildcards.Clear()
WriteWildcards(t) ==
  /\ g[t].pc = "w_wildcards"
  /\ wildcards' = IF g[t].op = "Update" THEN g[t].new.wildcards
                  ELSE RadixClear(wildcards)
  /\ Goto(t, "w_ips")
  /\ UNCHANGED <<domains, ips, urlPatterns, bloom, lastUpdate, entryCount,
                 version, seqVars, updaterVars, mu, installed>>

\* ms.ips = newIPs  /  ms.ips = make(map...)
WriteIPs(t) ==
  /\ g[t].pc = "w_ips"
  /\ ips' = IF g[t].op = "Update" THEN g[t].new.ips ELSE <<>>
  /\ Goto(t, "w_urlPatterns")
  /\ UNCHANGED <<domains, wildcards, urlPatterns, bloom, lastUpdate,
                 entryCount, version, seqVars, updaterVars, mu, installed>>

\* ms.urlPatterns = newURLPatterns  /  ms.urlPatterns = make(map...)
WriteURLPatterns(t) ==
  /\ g[t].pc = "w_urlPatterns"
  /\ urlPatterns' = IF g[t].op = "Update" THEN g[t].new.urlPatterns ELSE <<>>
  /\ Goto(t, "w_bloom")
  /\ UNCHANGED <<domains, wildcards, ips, bloom, lastUpdate, entryCount,
                 version, seqVars, updaterVars, mu, installed>>

\* ms.bloom = newBloom  /  ms.bloom.Clear()
WriteBloom(t) ==
  /\ g[t].pc = "w_bloom"
  /\ bloom' = IF g[t].op = "Update" THEN g[t].new.bloom ELSE BloomClear(bloom)
  /\ Goto(t, "w_meta")
  /\ UNCHANGED <<domains, wildcards, ips, urlPatterns, lastUpdate, entryCount,
                 version, seqVars, updaterVars, mu, installed>>

\* the metadata written with the entry count left as it was
WriteMetaKeepsCount(t, now) ==
  /\ g[t].pc = "w_meta"
  /\ lastUpdate' = now
  /\ version' = IF g[t].op = "Update" THEN g[t].arg.Version ELSE version
  /\ entryCount' = entryCount
  /\ Goto(t, "unlock")
  /\ UNCHANGED <<domains, wildcards, ips, urlPatterns, bloom, seqVars, updaterVars, mu,
                 installed>>

\* Update: lastUpdate, version, entryCount; Clear: entryCount, lastUpdate
WriteMeta(t, now) ==
  /\ g[t].pc = "w_meta"
  /\ lastUpdate' = now
  /\ version' = IF g[t].op = "Update" THEN g[t].arg.Version ELSE version
  /\ entryCount' = IF g[t].op = "Update" THEN Len(g[t].arg.Entries) ELSE 0
  /\ Goto(t, "unlock")
  /\ UNCHANGED <<domains, wildcards, ips, urlPatterns, bloom, seqVars, updaterVars, mu,
                 installed>>

\* defer ms.mu.Unlock()
Unlock(t) ==
  /\ g[t].pc = "unlock"
  /\ mu' = [mu EXCEPT !.writer = "none"]
  /\ installed' = installed \cup {Live}
  /\ g' = [g EXCEPT ![t].pc = "returned",
                    ![t].ret = IF g[t].op = "Update" THEN "nil" ELSE Nil]
  /\ current' = IF g[t].op = "Update"
                THEN [kind |-> "updated", registry |-> g[t].arg]
                ELSE [kind |-> "cleared", registry |-> Nil]
  /\ UNCHANGED <<storeVars, lastOp, updaterVars>>

\* the call has returned to its caller
Return(t) ==
  /\ g[t].pc = "returned"
  /\ g' = [g EXCEPT ![t] = Idle]
  /\ UNCHANGED <<storeVars, seqVars, updaterVars, mu, installed>>

NextConc ==
  \E t \in Goroutines :
    \/ \E key \in ConcKeys : CallIsBlocked(t, key)
    \/ RLock(t)
    \/ ReadBloom(t)
    \/ ReadDomains(t)
    \/ ReadIPs(t)
    \/ ReadWildcards(t)
    \/ ReadURLPatterns(t)
    \/ RUnlock(t)
    \/ \E registry \in ConcRegistries \cup {Nil} : CallUpdate(t, registry)
    \/ CallClear(t)
    \/ Lock(t)
    \/ WriteDomains(t)
    \/ WriteWildcards(t)
    \/ WriteIPs(t)
    \/ WriteURLPatterns(t)
    \/ WriteBloom(t)
    \/ \E now \in Times : now >= lastUpdate /\ WriteMeta(t, now)
    \/ Unlock(t)
    \/ Return(t)

SpecConc == Init /\ [][NextConc]_vars

\* ------------------------------------------------------------------------
\* Scheduler.  A run goroutine is [pc, ctxDone, attempt, lastErr], what
\* its FetchRegistry call in progress has returned or come to (got), what
\* made it update (cause) and the history of its current performUpdate,
\* kept until its select moves on: calls (FetchRegistry calls made),
\* recorded (recordFailure calls made), before (the store when it began),
\* updateArg (the last registry handed to store.Update), fetched (what its
\* last FetchRegistry call gave), outcome (how it ended).  performUpdate is
\* taken in steps, one per critical section of s.mu, call of FetchRegistry
\* and call of store.Update.  An error is the chain of its messages, the
\* wrapped error last.
\* ------------------------------------------------------------------------

\* accepted Start calls of one run of the model, the performUpdate
\* executions of a started scheduler, and those of direct calls
MaxStarts == 2

MaxSchedUpdates == 2

MaxUpdates == 3

\* Config.MaxRetries of the schedulers explored
RetryChoices == {0, 1, 2}

SchedConfigs == {[interval |-> 1, maxRetries |-> m] : m \in RetryChoices}

\* Registry.Size
Size(registry) == Len(registry.Entries)

\* what client.FetchRegistry can return: an error, or a registry that may
\* be empty
EmptyRegistry == [Entries |-> <<>>, Version |-> "v1"]

FetchedRegistry == [Entries |-> <<E_Domain, E_WildBC>>, Version |-> "v1"]

FetchOutcomes ==
  {[err |-> "fetch", registry |-> Nil],
   [err |-> "nil", registry |-> EmptyRegistry],
   [err |-> "nil", registry |-> FetchedRegistry]}

\* what a FetchRegistry call gave: an error, an empty registry or entries
FetchKind(out) ==
  IF out.err # "nil" THEN "error"
  ELSE IF Size(out.registry) = 0 THEN "empty"
  ELSE "entries"

\* what store.Update can return: an error, as the mockRegistryStore of the
\* scheduler tests is told to, or nil
StoreOutcomes == <<"store", "nil">>

\* go s.run(ctx): the goroutine is about to make the initial update
NewLoop ==
  [pc |-> "perform", ctxDone |-> FALSE, attempt |-> 0, lastErr |-> "nil",
   got |-> Nil,
   calls |-> 0, recorded |-> 0, before |-> Nil, updateArg |-> Nil,
   outcome |-> "none", cause |-> "initial", fetched |-> "none"]

\* recordSuccess that leaves consecutiveFailures as it is
recordSuccessKeepsFailures(s, now) ==
  [s EXCEPT !.lastUpdate = now, !.lastError = NilError,
            !.successfulUpdates = @ + 1]

\* recordSuccess at time now
recordSuccess(s, now) ==
  [s EXCEPT !.lastUpdate = now, !.lastError = NilError,
            !.consecutiveFailures = 0, !.successfulUpdates = @ + 1]

\* recordFailure(err)
recordFailure(s, err) ==
  [s EXCEPT !.lastError = err, !.consecutiveFailures = @ + 1]

\* executeUpdate that hands the registry to the store before it looks at
\* its size
executeUpdateStoresFirst(out, storeErr) ==
  IF out.err # "nil"
  THEN [err |-> "fetching registry", updateArg |-> Nil, stored |-> FALSE]
  ELSE IF storeErr # "nil"
  THEN [err |-> "updating store", updateArg |-> out.registry, stored |-> FALSE]
  ELSE IF Size(out.registry) = 0
  THEN [err |-> "received empty registry", updateArg |-> out.registry,
        stored |-> TRUE]
  ELSE [err |-> "nil", updateArg |-> out.registry, stored |-> TRUE]

\* executeUpdate without the check of registry.Size()
executeUpdateNoSizeCheck(out, storeErr) ==
  IF out.err # "nil"
  THEN [err |-> "fetching registry", updateArg |-> Nil, stored |-> FALSE]
  ELSE IF storeErr # "nil"
  THEN [err |-> "updating store", updateArg |-> out.registry, stored |-> FALSE]
  ELSE [err |-> "nil", updateArg |-> out.registry, stored |-> TRUE]

\* executeUpdate, given what FetchRegistry and store.Update return: its
\* error, the registry store.Update was invoked with (Nil: not invoked) and
\* whether the store took it
executeUpdate(out, storeErr) ==
  IF out.err # "nil"
  THEN [err |-> "fetching registry", updateArg |-> Nil, stored |-> FALSE]
  ELSE IF Size(out.registry) = 0
  THEN [err |-> "received empty registry", updateArg |-> Nil, stored |-> FALSE]
  ELSE IF storeErr # "nil"
  THEN [err |-> "updating store", updateArg |-> out.registry, stored |-> FALSE]
  ELSE [err |-> "nil", updateArg |-> out.registry, stored |-> TRUE]

\* a loop condition that allows one attempt too many
MoreAttemptsInclusive(attempt, maxRetries) == attempt <= maxRetries

\* the condition of the retry loop of performUpdate
MoreAttempts(attempt, maxRetries) == attempt < maxRetries

\* the loops that are inside performUpdate
InPerformUpdate(i) ==
  loops[i].pc \in {"execute", "fetching", "fetched", "succeeded", "failed",
                   "backoff"}

\* what the scheduler's steps leave alone
SchedFrame == UNCHANGED <<concVars, cfg, source, srcCalls, client, ctl, clock, lastCall>>

StoreFrame == UNCHANGED <<storeVars, seqVars>>

\* Start that spawns run without looking at running
StartNoRunningCheck(c) ==
  /\ panicked = "none"
  /\ ctl[c] = "idle"
  /\ Len(loops) < MaxStarts
  /\ sched.totalUpdates < MaxSchedUpdates
  /\ sched' = [sched EXCEPT !.running = TRUE]
  /\ loops' = Append(loops, NewLoop)
  /\ lastCall' = [op |-> "Start", err |-> "nil"]
  /\ UNCHANGED <<concVars, cfg, source, srcCalls, client, ch, ctl, panicked, clock>>
  /\ StoreFrame

\* Start: rejected while running, else running is set and run is spawned
Start(c) ==
  /\ panicked = "none"
  /\ ctl[c] = "idle"
  /\ IF sched.running
     THEN /\ lastCall' = [op |-> "Start", err |-> "scheduler is already running"]
          /\ UNCHANGED <<sched, loops>>
     ELSE /\ Len(loops) < MaxStarts
          /\ sched.totalUpdates < MaxSchedUpdates
          /\ sched' = [sched EXCEPT !.running = TRUE]
          /\ loops' = Append(loops, NewLoop)
          /\ lastCall' = [op |-> "Start", err |-> "nil"]
  /\ UNCHANGED <<concVars, cfg, source, srcCalls, client, ch, ctl, panicked, clock>>
  /\ StoreFrame

\* Stop that signals stopCh and waits without looking at running
StopNoRunningCheck(c) ==
  /\ panicked = "none"
  /\ ctl[c] = "idle"
  /\ IF ch.stopCh = "closed"
     THEN /\ panicked' = "close of closed channel"
          /\ lastCall' = [op |-> "Stop", err |-> "panic"]
          /\ UNCHANGED <<ch, ctl>>
     ELSE /\ ch' = [ch EXCEPT !.stopCh = "closed"]
          /\ ctl' = [ctl EXCEPT ![c] = "stopWait"]
          /\ lastCall' = [op |-> "Stop", err |-> "waiting"]
          /\ UNCHANGED panicked
  /\ UNCHANGED <<concVars, sched, cfg, source, srcCalls, client, loops, clock>>
  /\ StoreFrame

\* Stop up to its wait for doneCh: rejected while not running, else stopCh
\* is closed, which panics when it is closed already
Stop(c) ==
  /\ panicked = "none"
  /\ ctl[c] = "idle"
  /\ IF ~sched.running
     THEN /\ lastCall' = [op |-> "Stop", err |-> "scheduler is not running"]
          /\ UNCHANGED <<ch, ctl, panicked>>
     ELSE IF ch.stopCh = "closed"
     THEN /\ panicked' = "close of closed channel"
          /\ lastCall' = [op |-> "Stop", err |-> "panic"]
          /\ UNCHANGED <<ch, ctl>>
     ELSE /\ ch' = [ch EXCEPT !.stopCh = "closed"]
          /\ ctl' = [ctl EXCEPT ![c] = "stopWait"]
          /\ lastCall' = [op |-> "Stop", err |-> "waiting"]
          /\ UNCHANGED panicked
  /\ UNCHANGED <<concVars, sched, cfg, source, srcCalls, client, loops, clock>>
  /\ StoreFrame

\* Stop receives from the closed doneCh and returns nil
StopReturn(c) ==
  /\ panicked = "none"
  /\ ctl[c] = "stopWait"
  /\ ch.doneCh = "closed"
  /\ ctl' = [ctl EXCEPT ![c] = "idle"]
  /\ lastCall' = [op |-> "Stop", err |-> "nil"]
  /\ UNCHANGED <<concVars, sched, cfg, source, srcCalls, client, ch, loops, panicked, clock>>
  /\ StoreFrame

\* the capacity of triggerCh
TriggerCap == 1

\* TriggerUpdate that queues every trigger
TriggerUpdateQueuesAll(c) ==
  /\ panicked = "none"
  /\ ctl[c] = "idle"
  /\ ch' = [ch EXCEPT !.triggerCh = @ + 1]
  /\ lastCall' = [op |-> "TriggerUpdate", err |-> "sent",
                  at |-> sched.totalUpdates]
  /\ UNCHANGED <<concVars, sched, cfg, source, srcCalls, client, loops, ctl, panicked, clock>>
  /\ StoreFrame

\* TriggerUpdate that drops the trigger while an update is in flight
TriggerUpdateDropsInFlight(c) ==
  /\ panicked = "none"
  /\ ctl[c] = "idle"
  /\ \E inFlight \in {\E i \in DOMAIN loops : InPerformUpdate(i)} :
       /\ ch' = [ch EXCEPT !.triggerCh =
                   IF @ < TriggerCap /\ ~inFlight THEN @ + 1 ELSE @]
       /\ lastCall' = [op |-> "TriggerUpdate",
                       err |-> IF ch.triggerCh < TriggerCap /\ ~inFlight
                               THEN "sent" ELSE "dropped",
                       at |-> sched.totalUpdates]
  /\ UNCHANGED <<concVars, sched, cfg, source, srcCalls, client, loops, ctl, panicked, clock>>
  /\ StoreFrame

\* TriggerUpdate: a send on triggerCh, dropped when the channel is full
TriggerUpdate(c) ==
  /\ panicked = "none"
  /\ ctl[c] = "idle"
  /\ ch' = [ch EXCEPT !.triggerCh = IF @ < TriggerCap THEN @ + 1 ELSE @]
  /\ lastCall' = [op |-> "TriggerUpdate",
                  err |-> IF ch.triggerCh < TriggerCap THEN "sent" ELSE "dropped",
                  at |-> sched.totalUpdates]
  /\ UNCHANGED <<concVars, sched, cfg, source, srcCalls, client, loops, ctl, panicked, clock>>
  /\ StoreFrame

\* the context handed to Start is cancelled
Cancel(i) ==
  /\ panicked = "none"
  /\ i \in DOMAIN loops
  /\ loops[i].pc # "exited"
  /\ ~loops[i].ctxDone
  /\ loops' = [loops EXCEPT ![i].ctxDone = TRUE]
  /\ UNCHANGED <<sched, ch, panicked>>
  /\ SchedFrame /\ StoreFrame

\* performUpdate up to its loop: totalUpdates is counted under s.mu; with
\* no attempt allowed the loop is left at once
PerformBegin(i) ==
  /\ panicked = "none"
  /\ i \in DOMAIN loops
  /\ loops[i].pc = "perform"
  /\ sched' = [sched EXCEPT !.totalUpdates = @ + 1]
  /\ loops' = [loops EXCEPT ![i].pc = IF MoreAttempts(0, cfg.maxRetries)
                                      THEN "execute" ELSE "failed",
                 ![i].attempt = 0, ![i].lastErr = "nil", ![i].got = Nil,
                 ![i].calls = 0, ![i].recorded = 0, ![i].before = Live,
                 ![i].updateArg = Nil, ![i].outcome = "running"]
  /\ UNCHANGED <<ch, panicked>>
  /\ SchedFrame /\ StoreFrame

\* executeUpdate calls s.client.FetchRegistry(ctx) on the mockRegistryClient
\* of the scheduler tests, which counts the call and returns what the test
\* has set
ExecuteFetch(i) ==
  /\ panicked = "none"
  /\ i \in DOMAIN loops
  /\ loops[i].pc = "execute"
  /\ client' = [client EXCEPT !.callCount = @ + 1]
  /\ \E out \in FetchOutcomes :
       loops' = [loops EXCEPT ![i].pc = "fetched", ![i].got = out,
                   ![i].calls = @ + 1, ![i].fetched = FetchKind(out)]
  /\ UNCHANGED <<concVars, sched, cfg, source, srcCalls, ch, ctl, panicked,
                 clock, lastCall>>
  /\ StoreFrame

\* executeUpdate after FetchRegistry has returned: the checks of the
\* result and store.Update; then the loop of performUpdate, which goes to
\* recordSuccess, to the delay before a further attempt, or to the
\* recordFailure after the last attempt
ExecuteStore(i) ==
  /\ panicked = "none"
  /\ i \in DOMAIN loops
  /\ loops[i].pc = "fetched"
  /\ \E k \in DOMAIN StoreOutcomes :
       \E r \in {executeUpdate(loops[i].got, StoreOutcomes[k])} :
         /\ IF r.err = "nil"
            THEN loops' = [loops EXCEPT ![i].pc = "succeeded",
                             ![i].got = Nil, ![i].updateArg = r.updateArg]
            ELSE loops' = [loops EXCEPT
                             ![i].pc = IF MoreAttempts(loops[i].attempt + 1,
                                                       cfg.maxRetries)
                                       THEN "backoff" ELSE "failed",
                             ![i].got = Nil, ![i].lastErr = r.err,
                             ![i].attempt = @ + 1,
                             ![i].updateArg =
                               IF r.updateArg # Nil THEN r.updateArg ELSE @]
         /\ IF r.stored THEN UpdateStore(r.updateArg, clock) ELSE StoreFrame
  /\ UNCHANGED <<concVars, sched, cfg, source, srcCalls, client, ch, ctl,
                 panicked, clock, lastCall>>

\* s.recordSuccess() after an attempt that returned nil
RecordSuccess(i) ==
  /\ panicked = "none"
  /\ i \in DOMAIN loops
  /\ loops[i].pc = "succeeded"
  /\ sched' = recordSuccess(sched, clock)
  /\ loops' = [loops EXCEPT ![i].pc = "select", ![i].outcome = "success"]
  /\ UNCHANGED <<ch, panicked>>
  /\ SchedFrame /\ StoreFrame

\* s.recordFailure after the loop of performUpdate, with the error that
\* wraps lastErr
RecordFailure(i) ==
  /\ panicked = "none"
  /\ i \in DOMAIN loops
  /\ loops[i].pc = "failed"
  /\ sched' = recordFailure(sched, AllRetriesFailed(loops[i].lastErr))
  /\ loops' = [loops EXCEPT ![i].pc = "select", ![i].recorded = @ + 1,
                 ![i].outcome = "failure"]
  /\ UNCHANGED <<ch, panicked>>
  /\ SchedFrame /\ StoreFrame

\* the retry delay elapses
BackoffElapsed(i) ==
  /\ panicked = "none"
  /\ i \in DOMAIN loops
  /\ loops[i].pc = "backoff"
  /\ loops' = [loops EXCEPT ![i].pc = "execute"]
  /\ UNCHANGED <<sched, ch, panicked>>
  /\ SchedFrame /\ StoreFrame

\* updateCtx is done during the retry delay (the update timeout, or the
\* context of Start): the failure is recorded and performUpdate returns
BackoffCancelled(i) ==
  /\ panicked = "none"
  /\ i \in DOMAIN loops
  /\ loops[i].pc = "backoff"
  /\ sched' = recordFailure(sched, ContextDone)
  /\ loops' = [loops EXCEPT ![i].pc = "select", ![i].recorded = @ + 1,
                 ![i].outcome = "failure"]
  /\ UNCHANGED <<ch, panicked>>
  /\ SchedFrame /\ StoreFrame

\* the select of run takes ctx.Done or stopCh and returns
SelectExit(i) ==
  /\ panicked = "none"
  /\ i \in DOMAIN loops
  /\ loops[i].pc = "select"
  /\ loops[i].ctxDone \/ ch.stopCh = "closed"
  /\ loops' = [loops EXCEPT ![i] = [NewLoop EXCEPT !.pc = "unsetRunning",
                                                   !.ctxDone = loops[i].ctxDone,
                                                   !.cause = "return"]]
  /\ UNCHANGED <<sched, ch, panicked>>
  /\ SchedFrame /\ StoreFrame

\* the ticker has fired and the select of run takes the tick
SelectTick(i) ==
  /\ panicked = "none"
  /\ i \in DOMAIN loops
  /\ loops[i].pc = "select"
  /\ sched.totalUpdates < MaxSchedUpdates
  /\ loops' = [loops EXCEPT ![i] = [NewLoop EXCEPT !.ctxDone = loops[i].ctxDone,
                                                   !.cause = "tick"]]
  /\ UNCHANGED <<sched, ch, panicked>>
  /\ SchedFrame /\ StoreFrame

\* the select of run receives the pending trigger
SelectTrigger(i) ==
  /\ panicked = "none"
  /\ i \in DOMAIN loops
  /\ loops[i].pc = "select"
  /\ ch.triggerCh > 0
  /\ sched.totalUpdates < MaxSchedUpdates
  /\ ch' = [ch EXCEPT !.triggerCh = @ - 1]
  /\ loops' = [loops EXCEPT ![i] = [NewLoop EXCEPT !.ctxDone = loops[i].ctxDone,
                                                   !.cause = "trigger"]]
  /\ UNCHANGED <<sched, panicked>>
  /\ SchedFrame /\ StoreFrame

\* the deferred function of run that clears running
UnsetRunning(i) ==
  /\ panicked = "none"
  /\ i \in DOMAIN loops
  /\ loops[i].pc = "unsetRunning"
  /\ sched' = [sched EXCEPT !.running = FALSE]
  /\ loops' = [loops EXCEPT ![i].pc = "closeDone"]
  /\ UNCHANGED <<ch, panicked>>
  /\ SchedFrame /\ StoreFrame

\* the deferred close(s.doneCh) of run, a panic when doneCh is closed
CloseDone(i) ==
  /\ panicked = "none"
  /\ i \in DOMAIN loops
  /\ loops[i].pc = "closeDone"
  /\ IF ch.doneCh = "closed"
     THEN /\ panicked' = "close of closed channel"
          /\ UNCHANGED <<ch, loops>>
     ELSE /\ ch' = [ch EXCEPT !.doneCh = "closed"]
          /\ loops' = [loops EXCEPT ![i].pc = "exited"]
          /\ UNCHANGED panicked
  /\ UNCHANGED sched
  /\ SchedFrame /\ StoreFrame

\* a scheduler that retries once
RetryConfig == [interval |-> 1, maxRetries |-> 2]

\* the scheduler of the scheduler tests, on a mockRegistryClient
InitSched ==
  /\ InitStore
  /\ InitOfficialSource
  /\ NewScheduler(MockRegistryClient, RetryConfig)
  /\ clock = 1

LoopIds == 1..MaxStarts

NextSched ==
  \/ \E c \in Controllers : Start(c)
  \/ \E c \in Controllers : Stop(c)
  \/ \E c \in Controllers : StopReturn(c)
  \/ \E c \in Controllers : TriggerUpdate(c)
  \/ \E i \in LoopIds : Cancel(i)
  \/ \E i \in LoopIds : PerformBegin(i)
  \/ \E i \in LoopIds : ExecuteFetch(i)
  \/ \E i \in LoopIds : ExecuteStore(i)
  \/ \E i \in LoopIds : RecordSuccess(i)
  \/ \E i \in LoopIds : RecordFailure(i)
  \/ \E i \in LoopIds : BackoffElapsed(i)
  \/ \E i \in LoopIds : BackoffCancelled(i)
  \/ \E i \in LoopIds : SelectExit(i)
  \/ \E i \in LoopIds : SelectTick(i)
  \/ \E i \in LoopIds : SelectTrigger(i)
  \/ \E i \in LoopIds : UnsetRunning(i)
  \/ \E i \in LoopIds : CloseDone(i)

SpecSched == InitSched /\ [][NextSched]_vars

\* a step of run goroutine i that waits for nothing but the goroutine
\* itself, the client and the store: those of performUpdate and the
\* deferred calls
RunProceeds(i) ==
  \/ PerformBegin(i)
  \/ ExecuteFetch(i)
  \/ ExecuteStore(i)
  \/ RecordSuccess(i)
  \/ RecordFailure(i)
  \/ BackoffElapsed(i)
  \/ UnsetRunning(i)
  \/ CloseDone(i)

\* the run goroutine is scheduled: it proceeds through performUpdate, its
\* retry delay elapses, a select with a pending trigger or a closed channel
\* takes a case, and the deferred calls run; nothing forces a tick
SchedFairness ==
  \A i \in LoopIds :
    /\ WF_vars(RunProceeds(i))
    /\ WF_vars(SelectTrigger(i))
    /\ WF_vars(SelectExit(i))

\* the scheduler driven by one goroutine that calls Start, Stop and
\* TriggerUpdate, and by the cancellation of the contexts it passed
NextSchedOne ==
  \/ Start("c1")
  \/ Stop("c1")
  \/ StopReturn("c1")
  \/ TriggerUpdate("c1")
  \/ \E i \in LoopIds : Cancel(i)
  \/ \E i \in LoopIds : PerformBegin(i)
  \/ \E i \in LoopIds : ExecuteFetch(i)
  \/ \E i \in LoopIds : ExecuteStore(i)
  \/ \E i \in LoopIds : RecordSuccess(i)
  \/ \E i \in LoopIds : RecordFailure(i)
  \/ \E i \in LoopIds : BackoffElapsed(i)
  \/ \E i \in LoopIds : BackoffCancelled(i)
  \/ \E i \in LoopIds : SelectExit(i)
  \/ \E i \in LoopIds : SelectTick(i)
  \/ \E i \in LoopIds : SelectTrigger(i)
  \/ \E i \in LoopIds : UnsetRunning(i)
  \/ \E i \in LoopIds : CloseDone(i)

SpecSchedFair == InitSched /\ [][NextSchedOne]_vars /\ SchedFairness

\* performUpdate called on a scheduler that was not started, again once
\* the call before it has returned
CallPerformUpdate ==
  /\ panicked = "none"
  /\ IF loops = <<>> THEN TRUE ELSE loops[1].pc = "select"
  /\ sched.totalUpdates < MaxUpdates
  /\ loops' = <<[NewLoop EXCEPT !.cause = "call"]>>
  /\ UNCHANGED <<sched, ch, panicked>>
  /\ SchedFrame /\ StoreFrame

InitUpdate ==
  /\ InitStore
  /\ InitOfficialSource
  /\ \E config \in SchedConfigs : NewScheduler(MockRegistryClient, config)
  /\ clock = 1

NextUpdate ==
  \/ CallPerformUpdate
  \/ PerformBegin(1)
  \/ ExecuteFetch(1)
  \/ ExecuteStore(1)
  \/ RecordSuccess(1)
  \/ RecordFailure(1)
  \/ BackoffElapsed(1)
  \/ BackoffCancelled(1)

SpecUpdate == InitUpdate /\ [][NextUpdate]_vars

\* ------------------------------------------------------------------------
\* Scheduler.IsHealthy.  A time.Duration is an int64 of nanoseconds; the
\* durations of the model are whole multiples of 2^60 ns, of which int64
\* holds -8 .. 7, and instants are counted in the same unit, 0 being the
\* zero time.Time.
\* ------------------------------------------------------------------------

\* the consecutive failures from which the scheduler is unhealthy
UnhealthyFailures == 5

\* an int64 result in units of 2^60 ns
WrapDuration(d) == ((d + 8) % 16) - 8

\* d * k for a Duration d and an untyped constant k
MulDuration(d, k) == WrapDuration(d * k)

\* time.Since(t) at time now, for instants less than 8 units apart
Since(t, now) == now - t

\* Scheduler.IsHealthy at time now
IsHealthy(s, config, now) ==
  IF s.consecutiveFailures >= UnhealthyFailures THEN FALSE
  ELSE IF s.lastUpdate # 0
          /\ Since(s.lastUpdate, now) > MulDuration(config.interval, 2)
  THEN FALSE
  ELSE TRUE

\* the failures, instants and intervals of the schedulers examined
MaxFailures == 6

MaxClock == 4

MaxInterval == 4

\* a scheduler that has made one successful update at time t (none when t
\* is 0) and then f failed ones
SchedulerAfter(t, f) ==
  [running |-> FALSE, lastUpdate |-> t,
   lastError |-> IF f = 0 THEN NilError
                 ELSE AllRetriesFailed("fetching registry"),
   consecutiveFailures |-> f,
   totalUpdates |-> f + (IF t = 0 THEN 0 ELSE 1),
   successfulUpdates |-> IF t = 0 THEN 0 ELSE 1]

InitHealth ==
  /\ InitStore
  /\ InitOfficialSource
  /\ \E t \in 0..MaxClock, f \in 0..MaxFailures : sched = SchedulerAfter(t, f)
  /\ \E d \in 0..MaxInterval : cfg = [interval |-> d, maxRetries |-> 1]
  /\ client = OfficialClient
  /\ ch = [stopCh |-> "open", doneCh |-> "open", triggerCh |-> 0]
  /\ loops = <<>>
  /\ ctl = [c \in Controllers |-> "idle"]
  /\ panicked = "none"
  /\ lastCall = [op |-> "NewScheduler"]
  /\ clock = IF sched.lastUpdate = 0 THEN 1 ELSE sched.lastUpdate

\* time passes
Advance ==
  /\ clock < MaxClock
  /\ clock' = clock + 1
  /\ UNCHANGED <<concVars, sched, cfg, source, srcCalls, client, ch, loops, ctl, panicked, lastCall>>
  /\ StoreFrame

\* a call of IsHealthy
CallIsHealthy ==
  /\ lastCall' = [op |-> "IsHealthy", at |-> clock,
                  ret |-> IsHealthy(sched, cfg, clock)]
  /\ UNCHANGED <<concVars, sched, cfg, source, srcCalls, client, ch, loops, ctl, panicked, clock>>
  /\ StoreFrame

NextHealth == Advance \/ CallIsHealthy

SpecHealth == InitHealth /\ [][NextHealth]_vars

\* ------------------------------------------------------------------------
\* The sources: GitHubSource and OfficialSource.  Fetch and IsHealthy are
\* taken in steps, one per lock operation, HTTP exchange, read and write of
\* the health cache and test of its age, so that calls of several
\* goroutines interleave as the mutex allows.  A read that races with a
\* write gives the value before or after it.  Time is counted in minutes.
\* ------------------------------------------------------------------------

\* the last value of the clock
MaxSourceClock == 7

\* the largest config.MaxRetries of a source
MaxSourceRetries == 2

\* the age below which IsHealthy answers from the cache: 5*time.Minute
HealthCacheWindow == 5

\* the largest time.Duration, in minutes: what Time.Sub saturates to
MaxDurationMinutes == 153722867

SourceKinds == {"github", "official"}

\* what one fetchOnce can give: a body, or one of its errors
AttemptOutcomes == {"ok", "HTTP request failed", "empty data"}

\* what the probe of IsHealthy can give: no response, or a status
ProbeOutcomes == {"error", "200", "503"}

\* time.Since(s.lastHealth) at time now
SinceHealth(s, now) ==
  IF s.lastHealth = ZeroTime THEN MaxDurationMinutes ELSE now - s.lastHealth

\* time.Since(s.lastHealth) < 5*time.Minute
CacheFresh(s, now) == SinceHealth(s, now) < HealthCacheWindow

\* a loop condition that allows one attempt more
MoreFetchAttemptsInclusive(attempt, maxRetries) == attempt <= maxRetries

\* attempt < config.MaxRetries
MoreFetchAttempts(attempt, maxRetries) == attempt < maxRetries

\* mu.Lock() can return for goroutine t
SourceCanLock == source.mu.writer = "none" /\ source.mu.readers = {}

\* mu.RLock() can return
SourceCanRLock == source.mu.writer = "none"

\* the mutex after goroutine t has released what it held
Released(t) ==
  [readers |-> source.mu.readers \ {t},
   writer |-> IF source.mu.writer = t THEN "none" ELSE source.mu.writer]

\* the steps that read the health cache
ReadPcs == {"read", "read_cached", "read_result"}

\* the steps that write the health cache
WritePcs == {"write_healthy", "write_last"}

SourceFrame ==
  UNCHANGED <<storeVars, seqVars, concVars, sched, cfg, client, ch, loops,
              ctl, panicked>>

\* a call of Fetch begins: GitHubSource takes the write lock for the whole
\* call, OfficialSource takes no lock yet
CallFetch(t) ==
  /\ srcCalls[t].pc = "idle"
  /\ source.kind = "github" => SourceCanLock
  /\ source' = IF source.kind = "github"
               THEN [source EXCEPT !.mu.writer = t] ELSE source
  /\ srcCalls' = [srcCalls EXCEPT ![t] =
                    [IdleCall EXCEPT !.pc = "loop", !.op = "Fetch"]]
  /\ UNCHANGED <<clock, lastCall>>
  /\ SourceFrame

\* one turn of the retry loop: the backoff has elapsed and fetchOnce answers
FetchAttempt(t) ==
  /\ srcCalls[t].pc = "loop"
  /\ MoreFetchAttempts(srcCalls[t].attempt, source.maxRetries)
  /\ \E outcome \in AttemptOutcomes :
       srcCalls' = [srcCalls EXCEPT ![t] =
         IF outcome = "ok"
         THEN [@ EXCEPT !.tries = Append(@, outcome),
                        !.ret = srcCalls[t].attempt + 1,
                        !.pending = TRUE, !.setLast = TRUE,
                        !.pc = IF source.kind = "github"
                               THEN "write_healthy" ELSE "lock"]
         ELSE [@ EXCEPT !.tries = Append(@, outcome),
                        !.cause = outcome, !.attempt = @ + 1]]
  /\ UNCHANGED <<source, clock, lastCall>>
  /\ SourceFrame

\* the context is done during the backoff before a further attempt:
\* Fetch returns ctx.Err()
FetchCancelled(t) ==
  /\ srcCalls[t].pc = "loop"
  /\ srcCalls[t].attempt > 0
  /\ MoreFetchAttempts(srcCalls[t].attempt, source.maxRetries)
  /\ srcCalls' = [srcCalls EXCEPT ![t] =
                    [@ EXCEPT !.err = "context", !.pc = "return"]]
  /\ UNCHANGED <<source, clock, lastCall>>
  /\ SourceFrame

\* the loop has ended without a body
FetchExhausted(t) ==
  /\ srcCalls[t].pc = "loop"
  /\ ~MoreFetchAttempts(srcCalls[t].attempt, source.maxRetries)
  /\ srcCalls' = [srcCalls EXCEPT ![t] =
                    [@ EXCEPT !.err = "SourceError fetch", !.pending = FALSE,
                              !.setLast = FALSE,
                              !.pc = IF source.kind = "github"
                                     THEN "write_healthy" ELSE "lock"]]
  /\ UNCHANGED <<source, clock, lastCall>>
  /\ SourceFrame

\* OfficialSource: healthMu.Lock() before the health cache is written
SourceLock(t) ==
  /\ srcCalls[t].pc = "lock"
  /\ SourceCanLock
  /\ source' = [source EXCEPT !.mu.writer = t]
  /\ srcCalls' = [srcCalls EXCEPT ![t].pc = "write_healthy"]
  /\ UNCHANGED <<clock, lastCall>>
  /\ SourceFrame

\* s.healthy = ...
WriteHealthy(t) ==
  /\ srcCalls[t].pc = "write_healthy"
  /\ source' = [source EXCEPT !.healthy = srcCalls[t].pending]
  /\ srcCalls' = [srcCalls EXCEPT ![t].pc =
                    IF srcCalls[t].setLast THEN "write_last" ELSE "return"]
  /\ UNCHANGED <<clock, lastCall>>
  /\ SourceFrame

\* s.lastHealth = time.Now(); IsHealthy of a GitHubSource goes on to read
\* the healthy it returns
WriteLastHealth(t) ==
  /\ srcCalls[t].pc = "write_last"
  /\ source' = [source EXCEPT !.lastHealth = clock]
  /\ srcCalls' = [srcCalls EXCEPT ![t] =
                    [@ EXCEPT !.stamp = clock,
                              !.pc = IF source.kind = "github"
                                        /\ srcCalls[t].op # "Fetch"
                                     THEN "read_result" ELSE "return"]]
  /\ UNCHANGED <<clock, lastCall>>
  /\ SourceFrame

\* GitHubSource.IsHealthy after a probe that was answered: return g.healthy,
\* the field as it is now
ReadResult(t) ==
  /\ srcCalls[t].pc = "read_result"
  /\ srcCalls' = [srcCalls EXCEPT ![t] =
                    [@ EXCEPT !.ret = source.healthy, !.pc = "return"]]
  /\ UNCHANGED <<source, clock, lastCall>>
  /\ SourceFrame

\* a call of IsHealthy begins: mu.RLock()
CallSourceIsHealthy(t) ==
  /\ srcCalls[t].pc = "idle"
  /\ SourceCanRLock
  /\ source' = [source EXCEPT !.mu.readers = @ \cup {t}]
  /\ srcCalls' = [srcCalls EXCEPT ![t] =
                    [IdleCall EXCEPT !.pc = "read", !.op = "IsHealthy"]]
  /\ UNCHANGED <<clock, lastCall>>
  /\ SourceFrame

\* OfficialSource.IsHealthy copies lastHealth and healthy under the read
\* lock and gives the lock back
CopyHealth(t) ==
  /\ srcCalls[t].pc = "read"
  /\ source.kind = "official"
  /\ source' = [source EXCEPT !.mu = Released(t)]
  /\ srcCalls' = [srcCalls EXCEPT ![t] =
       [@ EXCEPT !.seenLast = source.lastHealth,
                 !.seenHealthy = source.healthy,
                 !.pc = "test"]]
  /\ UNCHANGED <<clock, lastCall>>
  /\ SourceFrame

\* OfficialSource.IsHealthy tests the age of its copy of lastHealth, holding
\* no lock: it returns its copy of healthy or goes on to probe
TestCopy(t) ==
  /\ srcCalls[t].pc = "test"
  /\ \E fresh \in {CacheFresh([lastHealth |-> srcCalls[t].seenLast], clock)} :
       srcCalls' = [srcCalls EXCEPT ![t] =
         [@ EXCEPT !.at = clock,
                   !.ret = IF fresh THEN srcCalls[t].seenHealthy ELSE "none",
                   !.pc = IF fresh THEN "return" ELSE "probe"]]
  /\ UNCHANGED <<source, clock, lastCall>>
  /\ SourceFrame

\* GitHubSource.IsHealthy tests the age of g.lastHealth under the read
\* lock, which it keeps until the call returns; g.healthy is not read here
TestLastHealth(t) ==
  /\ srcCalls[t].pc = "read"
  /\ source.kind = "github"
  /\ srcCalls' = [srcCalls EXCEPT ![t] =
       [@ EXCEPT !.seenLast = source.lastHealth,
                 !.at = clock,
                 !.pc = IF CacheFresh(source, clock)
                        THEN "read_cached" ELSE "probe"]]
  /\ UNCHANGED <<source, clock, lastCall>>
  /\ SourceFrame

\* GitHubSource.IsHealthy on a fresh cache: return g.healthy, the field as
\* it is now
ReadCached(t) ==
  /\ srcCalls[t].pc = "read_cached"
  /\ srcCalls' = [srcCalls EXCEPT ![t] =
       [@ EXCEPT !.seenHealthy = source.healthy,
                 !.ret = source.healthy,
                 !.pc = "return"]]
  /\ UNCHANGED <<source, clock, lastCall>>
  /\ SourceFrame

\* the HEAD or WSDL request of IsHealthy and its answer.  What the call
\* returns is known here, but for a GitHubSource whose probe was answered:
\* it returns the field healthy, read after the two writes
Probe(t) ==
  /\ srcCalls[t].pc = "probe"
  /\ \E outcome \in ProbeOutcomes :
       srcCalls' = [srcCalls EXCEPT ![t] =
         [@ EXCEPT !.probe = outcome,
                   !.pending = (outcome = "200"),
                   !.ret = IF source.kind = "github" /\ outcome # "error"
                           THEN "none" ELSE (outcome = "200"),
                   !.setLast = (outcome # "error"),
                   !.pc = IF source.kind = "github"
                          THEN "write_healthy" ELSE "lock"]]
  /\ UNCHANGED <<source, clock, lastCall>>
  /\ SourceFrame

\* the call returns: its deferred unlock runs
SourceReturn(t) ==
  /\ srcCalls[t].pc = "return"
  /\ source' = [source EXCEPT !.mu = Released(t)]
  /\ srcCalls' = [srcCalls EXCEPT ![t] = IdleCall]
  /\ UNCHANGED <<clock, lastCall>>
  /\ SourceFrame

\* time passes
AdvanceSource ==
  /\ \E d \in {1, 4} :
       /\ clock + d <= MaxSourceClock
       /\ clock' = clock + d
  /\ UNCHANGED <<source, srcCalls, lastCall>>
  /\ SourceFrame

\* one goroutine calls a source of either kind
InitSource ==
  /\ InitStore
  /\ NewScheduler(OfficialClient, TestConfig)
  /\ clock = 1
  /\ \E kind \in SourceKinds, r \in 0..MaxSourceRetries :
       source = NewSource(kind, r)
  /\ srcCalls = [t \in {"s1"} |-> IdleCall]

NextSource ==
  \/ \E t \in DOMAIN srcCalls : CallFetch(t)
  \/ \E t \in DOMAIN srcCalls : FetchAttempt(t)
  \/ \E t \in DOMAIN srcCalls : FetchCancelled(t)
  \/ \E t \in DOMAIN srcCalls : FetchExhausted(t)
  \/ \E t \in DOMAIN srcCalls : SourceLock(t)
  \/ \E t \in DOMAIN srcCalls : WriteHealthy(t)
  \/ \E t \in DOMAIN srcCalls : WriteLastHealth(t)
  \/ \E t \in DOMAIN srcCalls : CallSourceIsHealthy(t)
  \/ \E t \in DOMAIN srcCalls : CopyHealth(t)
  \/ \E t \in DOMAIN srcCalls : TestCopy(t)
  \/ \E t \in DOMAIN srcCalls : TestLastHealth(t)
  \/ \E t \in DOMAIN srcCalls : ReadCached(t)
  \/ \E t \in DOMAIN srcCalls : Probe(t)
  \/ \E t \in DOMAIN srcCalls : ReadResult(t)
  \/ \E t \in DOMAIN srcCalls : SourceReturn(t)
  \/ AdvanceSource

SpecSource == InitSource /\ [][NextSource]_vars

\* two goroutines call a source of either kind
InitSourceConc ==
  /\ InitStore
  /\ NewScheduler(OfficialClient, TestConfig)
  /\ clock = 1
  /\ \E kind \in SourceKinds : source = NewSource(kind, OfficialMaxRetries)
  /\ srcCalls = [t \in {"s1", "s2"} |-> IdleCall]

SpecSourceConc == InitSourceConc /\ [][NextSource]_vars

\* ------------------------------------------------------------------------
\* Client.fetchFromSource on the source: IsHealthy, then Fetch when healthy
\* ------------------------------------------------------------------------

\* fetchFromSource begins: it calls source.IsHealthy(ctx)
CallFetchFromSource(t) ==
  /\ srcCalls[t].pc = "idle"
  /\ SourceCanRLock
  /\ source' = [source EXCEPT !.mu.readers = @ \cup {t}]
  /\ srcCalls' = [srcCalls EXCEPT ![t] =
                    [IdleCall EXCEPT !.pc = "read", !.op = "fetchFromSource"]]
  /\ UNCHANGED <<clock, lastCall>>
  /\ SourceFrame

\* IsHealthy returned false: fetchFromSource returns the health_check
\* SourceError without calling Fetch
SkipUnhealthy(t) ==
  /\ srcCalls[t].pc = "return"
  /\ srcCalls[t].op = "fetchFromSource"
  /\ srcCalls[t].ret = FALSE
  /\ source' = [source EXCEPT !.mu = Released(t)]
  /\ srcCalls' = [srcCalls EXCEPT ![t] = IdleCall]
  /\ UNCHANGED <<clock, lastCall>>
  /\ SourceFrame

\* IsHealthy returned true: its deferred unlock has run, and fetchFromSource
\* is about to call source.Fetch(ctx), holding no lock
HealthyReturned(t) ==
  /\ srcCalls[t].pc = "return"
  /\ srcCalls[t].op = "fetchFromSource"
  /\ srcCalls[t].ret = TRUE
  /\ source' = [source EXCEPT !.mu = Released(t)]
  /\ srcCalls' = [srcCalls EXCEPT ![t].pc = "call_fetch"]
  /\ UNCHANGED <<clock, lastCall>>
  /\ SourceFrame

\* fetchFromSource calls source.Fetch(ctx): GitHubSource takes the write
\* lock for the whole call, OfficialSource takes no lock yet; the frame
\* keeps what IsHealthy read and what its probe answered
FetchAfterHealthy(t) ==
  /\ srcCalls[t].pc = "call_fetch"
  /\ source.kind = "github" => SourceCanLock
  /\ source' = IF source.kind = "github"
               THEN [source EXCEPT !.mu.writer = t] ELSE source
  /\ srcCalls' = [srcCalls EXCEPT ![t] =
                    [IdleCall EXCEPT !.pc = "loop", !.op = "Fetch",
                                     !.at = srcCalls[t].at,
                                     !.probe = srcCalls[t].probe,
                                     !.seenHealthy = srcCalls[t].seenHealthy,
                                     !.seenLast = srcCalls[t].seenLast]]
  /\ UNCHANGED <<clock, lastCall>>
  /\ SourceFrame

\* the Fetch of fetchFromSource returns
FetchReturn(t) ==
  /\ srcCalls[t].op = "Fetch"
  /\ SourceReturn(t)

\* the IsHealthy that Client.GetHealthStatus calls on the source returns
IsHealthyReturn(t) ==
  /\ srcCalls[t].op = "IsHealthy"
  /\ SourceReturn(t)

\* goroutine s1 runs fetchFromSource, as FetchRegistry does for each source;
\* goroutine s2 calls IsHealthy, as GetHealthStatus does
NextRecover ==
  \/ CallFetchFromSource("s1")
  \/ CallSourceIsHealthy("s2")
  \/ \E t \in DOMAIN srcCalls : CopyHealth(t)
  \/ \E t \in DOMAIN srcCalls : TestCopy(t)
  \/ \E t \in DOMAIN srcCalls : TestLastHealth(t)
  \/ \E t \in DOMAIN srcCalls : ReadCached(t)
  \/ \E t \in DOMAIN srcCalls : Probe(t)
  \/ \E t \in DOMAIN srcCalls : SourceLock(t)
  \/ \E t \in DOMAIN srcCalls : WriteHealthy(t)
  \/ \E t \in DOMAIN srcCalls : WriteLastHealth(t)
  \/ \E t \in DOMAIN srcCalls : ReadResult(t)
  \/ \E t \in DOMAIN srcCalls : SkipUnhealthy(t)
  \/ \E t \in DOMAIN srcCalls : HealthyReturned(t)
  \/ \E t \in DOMAIN srcCalls : FetchAfterHealthy(t)
  \/ \E t \in DOMAIN srcCalls : FetchAttempt(t)
  \/ \E t \in DOMAIN srcCalls : FetchCancelled(t)
  \/ \E t \in DOMAIN srcCalls : FetchExhausted(t)
  \/ \E t \in DOMAIN srcCalls : FetchReturn(t)
  \/ \E t \in DOMAIN srcCalls : IsHealthyReturn(t)
  \/ AdvanceSource

\* a FetchRegistry and a GetHealthStatus reach a source of either kind on
\* two goroutines
SpecRecover == InitSourceConc /\ [][NextRecover]_vars

\* ------------------------------------------------------------------------
\* Registry Client.  A source is its position in client.sources, where its
\* name stands.  FetchRegistry is taken in steps: the call, which orders
\* the sources; for each source it tries the read of the health cache by
\* IsHealthy, the test of its age, the probe and the write of the cache,
\* the Fetch and the parse; and the
\* return after the last one failed.  The call is given after how many
\* failed attempts its context is done (cancelAfter, 0: never) and whether
\* it is done from the start (doneAtCall).  Another goroutine calls
\* GetHealthStatus, whose IsHealthy calls take the same steps on the same
\* sources.
\* ------------------------------------------------------------------------

\* failed FetchRegistry calls in a row of one run of the model
MaxClientFailures == 2

\* the sources of the clients the tests build from mockSources
ClientSources ==
  {<<"source-1", "source-2">>, <<"source-1", "source-2", "source-3">>}

\* the source types of the configurations given to NewClient
ClientConfigs ==
  {<<>>, <<SourceTypeGitHub>>, <<SourceTypeOfficial>>,
   <<SourceTypeOfficial, SourceTypeOfficial>>,
   <<SourceTypeOfficial, SourceTypeGitHub>>}

\* the positions 1..n in order
Positions(n) == [k \in 1..n |-> k]

\* orderSources
orderSources(c) ==
  LET idx == Positions(Len(c.sources))
      IsOther(k) == c.sources[k] # c.lastSuccessfulSource
      others == SelectSeq(idx, IsOther)
      matching == {k \in DOMAIN idx : ~IsOther(k)}
  IN IF c.lastSuccessfulSource = "" THEN idx
     ELSE IF matching = {} THEN others
     ELSE <<CHOOSE k \in matching : \A j \in matching : j <= k>> \o others

\* what a source does in one call of fetchFromSource: IsHealthy answers
\* false, Fetch fails, Parse fails, or a registry is returned
SourceOutcomes == {"unhealthy", "fetch", "parse", "ok"}

\* fetchFromSource that fetches without looking at the health check
fetchFromSourceIgnoresHealth(outcome) ==
  [health |-> 1, fetch |-> 1,
   err |-> IF outcome = "ok" THEN "nil"
           ELSE IF outcome = "unhealthy" THEN "fetch" ELSE outcome]

\* fetchFromSource on a source with the given outcome: the IsHealthy and
\* Fetch calls it makes and the operation of the SourceError it returns
fetchFromSource(outcome) ==
  IF outcome = "unhealthy" THEN [health |-> 1, fetch |-> 0, err |-> "health_check"]
  ELSE IF outcome = "fetch" THEN [health |-> 1, fetch |-> 1, err |-> "fetch"]
  ELSE IF outcome = "parse" THEN [health |-> 1, fetch |-> 1, err |-> "parse"]
  ELSE [health |-> 1, fetch |-> 1, err |-> "nil"]

\* how Fetch on an OfficialSource can end: with a body Parse accepts ("ok")
\* or refuses ("bad data"), after its last attempt failed, or cancelled in
\* the wait before a further attempt
OfficialFetches == {"ok", "bad data", "exhausted", "cancelled"}

\* how Fetch on a mockSource can end: with the data of the test, which
\* Parse accepts or refuses, or with its err
MockFetches == {"ok", "bad data", "error"}

\* OfficialSource.IsHealthy up to its cache test: lastHealth and healthy
\* are copied under healthMu.RLock, which is released before the test
healthRead(s) == [lastHealth |-> s.lastHealth, healthy |-> s.healthy]

\* OfficialSource.IsHealthy after its probe was answered: the lock section
\* that writes the health cache; the call returns probe = "200"
healthWrite(s, now, probe) ==
  IF probe = "error" THEN [s EXCEPT !.healthy = FALSE]
  ELSE [s EXCEPT !.healthy = (probe = "200"), !.lastHealth = now]

\* the answers the probe of IsHealthy can get: none under a context that
\* is done
ProbeAnswers(ctxDone) == {p \in ProbeOutcomes : ctxDone => p = "error"}

\* OfficialSource.Fetch as one call that returns at time now, when its
\* lock section has written the health cache: [err, source]
fetchCall(s, now, fetch) ==
  IF fetch \in {"ok", "bad data"}
  THEN [err |-> "nil",
        source |-> [s EXCEPT !.healthy = TRUE, !.lastHealth = now]]
  ELSE IF fetch = "cancelled" THEN [err |-> "context", source |-> s]
  ELSE [err |-> "SourceError fetch", source |-> [s EXCEPT !.healthy = FALSE]]

\* how source.Fetch can end at position pos: under a context that is done
\* the requests of an OfficialSource fail, and its Fetch returns ctx.Err()
\* only from the wait before a further attempt; a mockSource answers as the
\* test has set it, whatever the context
FetchEnds(c, pos, ctxDone, ctxEnding) ==
  IF c.srcState[pos] = Nil THEN MockFetches
  ELSE {x \in OfficialFetches :
          /\ ctxDone => x \in {"exhausted", "cancelled"}
          /\ x = "cancelled" =>
               (ctxDone \/ ctxEnding) /\ c.srcState[pos].maxRetries >= 2
          /\ (ctxDone /\ c.srcState[pos].maxRetries >= 2) => x = "cancelled"
          /\ x \in {"ok", "bad data"} => c.srcState[pos].maxRetries >= 1}

\* onFetchSuccess that leaves consecutiveFailures as it is
onFetchSuccessKeepsFailures(c, pos) ==
  [c EXCEPT !.lastSuccessfulSource = c.sources[pos], !.lastSource = pos]

\* onFetchSuccess for the source at position pos
onFetchSuccess(c, pos) ==
  [c EXCEPT !.lastSuccessfulSource = c.sources[pos],
            !.consecutiveFailures = 0,
            !.lastSource = pos]

\* FetchRegistry up to its loop: the sources ordered, none contacted yet
beginFetchRegistry(c, cancelAfter, doneAtCall) ==
  [op |-> "fetching", ordered |-> orderSources(c), k |-> 1,
   phase |-> "health", seen |-> Nil, probe |-> "none", body |-> "none",
   contacted |-> <<>>,
   calls |-> [pos \in DOMAIN c.sources |-> [health |-> 0, fetch |-> 0]],
   out |-> [pos \in DOMAIN c.sources |-> "none"],
   err |-> "none", source |-> 0,
   cancelAfter |-> cancelAfter, doneAtCall |-> doneAtCall,
   prev |-> c.lastSource, failuresBefore |-> c.consecutiveFailures]

\* the context of the call is done when the attempt on the k-th source
\* begins, or becomes done during it
CtxDone(f) == f.doneAtCall \/ (f.cancelAfter # 0 /\ f.cancelAfter < f.k)

CtxEnding(f) == f.cancelAfter = f.k

\* fetchFromSource on the k-th source has come to outcome: the frame of
\* FetchRegistry after it, which has returned on a registry and else goes
\* on with the next source, unless ctx.Err() is set
sourceDone(f, outcome) ==
  LET pos == f.ordered[f.k]
      r == fetchFromSource(outcome)
      f1 == [f EXCEPT !.calls[pos] = [health |-> r.health, fetch |-> r.fetch],
                      !.out[pos] = outcome, !.phase = "health",
                      !.probe = "none", !.body = "none"]
  IN IF r.err = "nil"
     THEN [f1 EXCEPT !.op = "FetchRegistry", !.err = "nil", !.source = pos]
     ELSE [f1 EXCEPT !.k = IF CtxDone(f) \/ CtxEnding(f)
                           THEN Len(f.ordered) + 1 ELSE @ + 1]

\* fetchFromSource after source.IsHealthy has returned h
afterHealth(f, h) ==
  IF h THEN [f EXCEPT !.phase = "fetch"] ELSE sourceDone(f, "unhealthy")

\* fetchFromSource on the next source calls source.IsHealthy: the frame
checkSource(f) ==
  [f EXCEPT !.contacted = Append(@, f.ordered[f.k]),
            !.calls[f.ordered[f.k]].health = 1]

\* the IsHealthy of fetchFromSource tests the age of its copy of lastHealth
\* at time now: it returns its copy of healthy, or goes on to probe
testSource(f, now) ==
  IF CacheFresh(f.seen, now)
  THEN afterHealth([f EXCEPT !.seen = Nil], f.seen.healthy)
  ELSE [f EXCEPT !.seen = Nil, !.phase = "probe"]

\* the IsHealthy of fetchFromSource writes the cache and returns:
\* [client, frame]
writeHealth(c, f, now) ==
  LET pos == f.ordered[f.k] IN
  [client |-> [c EXCEPT !.srcState[pos] = healthWrite(@, now, f.probe)],
   frame |-> afterHealth(f, f.probe = "200")]

\* the source.Fetch of fetchFromSource returns, ended as fetch says:
\* [client, frame]
fetchSource(c, f, now, fetch) ==
  LET pos == f.ordered[f.k]
      s == c.srcState[pos]
      failed == IF s = Nil THEN fetch = "error"
                ELSE fetchCall(s, now, fetch).err # "nil"
      f1 == [f EXCEPT !.calls[pos].fetch = 1]
  IN [client |-> IF s = Nil THEN c
                 ELSE [c EXCEPT !.srcState[pos] =
                                  fetchCall(s, now, fetch).source],
      frame |-> IF failed THEN sourceDone(f1, "fetch")
                ELSE [f1 EXCEPT !.phase = "parse", !.body = fetch]]

\* fetchFromSource parses the body, and FetchRegistry after it, which on a
\* registry calls onFetchSuccess and returns: [client, frame]
parseSource(c, f) ==
  LET pos == f.ordered[f.k]
      f1 == sourceDone(f, IF f.body = "bad data" THEN "parse" ELSE "ok")
  IN [client |-> IF f1.err = "nil" THEN onFetchSuccess(c, pos) ELSE c,
      frame |-> f1]

\* the end of FetchRegistry after the loop: [client, frame]
failFetchRegistry(c, f) ==
  [client |-> [c EXCEPT !.consecutiveFailures = @ + 1],
   frame |-> [f EXCEPT !.op = "FetchRegistry", !.err = "all sources failed"]]

\* no call of GetHealthStatus is in progress, and none has returned
IdleStatus ==
  [pc |-> "idle", op |-> "none", at |-> 0, seen |-> Nil, probe |-> "none",
   status |-> <<>>]

\* status[name] = h, and the loop of GetHealthStatus goes on to the next
\* source or the call returns the map
statusSet(fr, names, h) ==
  [fr EXCEPT !.status = [n \in DOMAIN fr.status \cup {names[fr.at]} |->
                           IF n = names[fr.at] THEN h ELSE fr.status[n]],
             !.seen = Nil,
             !.probe = "none",
             !.at = @ + 1,
             !.pc = IF fr.at < Len(names) THEN "read" ELSE "idle"]

ClientFrame ==
  UNCHANGED <<storeVars, seqVars, concVars, sched, cfg, source, srcCalls, ch,
              loops, ctl, panicked>>

StatusFrame ==
  UNCHANGED <<storeVars, seqVars, concVars, sched, cfg, source, ch, loops,
              ctl, panicked, clock, lastCall>>

\* NewClient(config)
CallNewClient ==
  /\ lastCall.op = "input"
  /\ lastCall.data \in ClientConfigs
  /\ client' = NewClient(lastCall.data).client
  /\ lastCall' = [op |-> "NewClient", config |-> lastCall.data,
                  err |-> NewClient(lastCall.data).err]
  /\ UNCHANGED clock
  /\ ClientFrame

\* a client test builds its client from mockSources
BuildTestClient ==
  /\ lastCall.op = "input"
  /\ lastCall.data \in ClientSources
  /\ client' = TestClient(lastCall.data)
  /\ lastCall' = [op |-> "TestClient"]
  /\ UNCHANGED clock
  /\ ClientFrame

\* FetchRegistry is called
CallFetchRegistry ==
  /\ client # Nil
  /\ lastCall.op \in {"NewClient", "TestClient", "FetchRegistry"}
  /\ client.consecutiveFailures < MaxClientFailures
  /\ \E cancelAfter \in 0..Len(client.sources), doneAtCall \in BOOLEAN :
       lastCall' = beginFetchRegistry(client, cancelAfter, doneAtCall)
  /\ UNCHANGED <<client, clock>>
  /\ ClientFrame

\* fetchFromSource asks the next source whether it is healthy: a
\* mockSource answers, an OfficialSource copies its cache under the read
\* lock and gives the lock back
CheckSource ==
  /\ lastCall.op = "fetching"
  /\ lastCall.k <= Len(lastCall.ordered)
  /\ lastCall.phase = "health"
  /\ \E s \in {client.srcState[lastCall.ordered[lastCall.k]]} :
       IF s = Nil
       THEN \E h \in BOOLEAN :
              lastCall' = afterHealth(checkSource(lastCall), h)
       ELSE lastCall' = [checkSource(lastCall) EXCEPT !.seen = healthRead(s),
                                                      !.phase = "test"]
  /\ UNCHANGED <<client, clock>>
  /\ ClientFrame

\* that IsHealthy tests the age of its copy, holding no lock, and answers
\* from the copy when it is fresh
TestSource ==
  /\ lastCall.op = "fetching"
  /\ lastCall.phase = "test"
  /\ lastCall' = testSource(lastCall, clock)
  /\ UNCHANGED <<client, clock>>
  /\ ClientFrame

\* the probe of that IsHealthy is answered, or fails
ProbeSource ==
  /\ lastCall.op = "fetching"
  /\ lastCall.phase = "probe"
  /\ \E p \in ProbeAnswers(CtxDone(lastCall)) :
       lastCall' = [lastCall EXCEPT !.probe = p, !.phase = "write"]
  /\ UNCHANGED <<client, clock>>
  /\ ClientFrame

\* that IsHealthy writes the health cache and returns
WriteHealth ==
  /\ lastCall.op = "fetching"
  /\ lastCall.phase = "write"
  /\ \E r \in {writeHealth(client, lastCall, clock)} :
       /\ client' = r.client
       /\ lastCall' = r.frame
  /\ UNCHANGED clock
  /\ ClientFrame

\* the Fetch of fetchFromSource on the healthy source returns
FetchSource ==
  /\ lastCall.op = "fetching"
  /\ lastCall.phase = "fetch"
  /\ \E fetch \in FetchEnds(client, lastCall.ordered[lastCall.k],
                            CtxDone(lastCall), CtxEnding(lastCall)) :
       \E r \in {fetchSource(client, lastCall, clock, fetch)} :
         /\ client' = r.client
         /\ lastCall' = r.frame
  /\ UNCHANGED clock
  /\ ClientFrame

\* fetchFromSource parses what it fetched; FetchRegistry returns the
\* registry when there is one
ParseSource ==
  /\ lastCall.op = "fetching"
  /\ lastCall.phase = "parse"
  /\ \E r \in {parseSource(client, lastCall)} :
       /\ client' = r.client
       /\ lastCall' = r.frame
  /\ UNCHANGED clock
  /\ ClientFrame

\* the loop of FetchRegistry has ended without a registry
FetchRegistryFails ==
  /\ lastCall.op = "fetching"
  /\ lastCall.k > Len(lastCall.ordered)
  /\ \E r \in {failFetchRegistry(client, lastCall)} :
       /\ client' = r.client
       /\ lastCall' = r.frame
  /\ UNCHANGED clock
  /\ ClientFrame

\* another goroutine calls GetHealthStatus(ctx)
CallGetHealthStatus(t) ==
  /\ client # Nil
  /\ srcCalls[t].pc = "idle"
  /\ srcCalls' = [srcCalls EXCEPT ![t] =
                    [IdleStatus EXCEPT !.pc = "read",
                                       !.op = "GetHealthStatus", !.at = 1]]
  /\ UNCHANGED client
  /\ StatusFrame

\* GetHealthStatus calls IsHealthy on its next source: a mockSource
\* answers, an OfficialSource copies its cache under the read lock and
\* gives the lock back
StatusRead(t) ==
  /\ srcCalls[t].pc = "read"
  /\ \E s \in {client.srcState[srcCalls[t].at]} :
       IF s = Nil
       THEN \E h \in BOOLEAN :
              srcCalls' = [srcCalls EXCEPT ![t] =
                             statusSet(@, client.sources, h)]
       ELSE srcCalls' = [srcCalls EXCEPT ![t] =
                           [@ EXCEPT !.seen = healthRead(s), !.pc = "test"]]
  /\ UNCHANGED client
  /\ StatusFrame

\* that IsHealthy tests the age of its copy, holding no lock, and answers
\* from the copy when it is fresh
StatusTest(t) ==
  /\ srcCalls[t].pc = "test"
  /\ srcCalls' = [srcCalls EXCEPT ![t] =
                    IF CacheFresh(srcCalls[t].seen, clock)
                    THEN statusSet(@, client.sources, srcCalls[t].seen.healthy)
                    ELSE [@ EXCEPT !.seen = Nil, !.pc = "probe"]]
  /\ UNCHANGED client
  /\ StatusFrame

\* the probe of that IsHealthy is answered, or fails, as it does under a
\* context that is done
StatusProbe(t) ==
  /\ srcCalls[t].pc = "probe"
  /\ \E p \in ProbeAnswers(FALSE) :
       srcCalls' = [srcCalls EXCEPT ![t] = [@ EXCEPT !.probe = p,
                                                     !.pc = "write"]]
  /\ UNCHANGED client
  /\ StatusFrame

\* that IsHealthy writes the health cache and returns
StatusWrite(t) ==
  /\ srcCalls[t].pc = "write"
  /\ client' = [client EXCEPT !.srcState[srcCalls[t].at] =
                                healthWrite(@, clock, srcCalls[t].probe)]
  /\ srcCalls' = [srcCalls EXCEPT ![t] =
                    statusSet(@, client.sources, srcCalls[t].probe = "200")]
  /\ StatusFrame

\* the moments at which the steps of the client are taken: between them
\* the age of a health cache is four minutes, less than its window, five
\* minutes, or one minute
ClientTimes == {1, HealthCacheWindow, HealthCacheWindow + 1}

\* time passes, to a later one of these moments
AdvanceClient ==
  /\ client # Nil
  /\ \E now \in ClientTimes :
       /\ clock < now
       /\ now <= MaxSourceClock
       /\ clock' = now
  /\ UNCHANGED <<client, lastCall>>
  /\ ClientFrame

\* no client yet, and what one is made from; one goroutine more, which
\* will call GetHealthStatus
InitClient ==
  /\ InitStore
  /\ source = NewSource("official", OfficialMaxRetries)
  /\ srcCalls = [t \in {"s1"} |-> IdleStatus]
  /\ sched = [running |-> FALSE, lastUpdate |-> 0, lastError |-> NilError,
              consecutiveFailures |-> 0, totalUpdates |-> 0,
              successfulUpdates |-> 0]
  /\ cfg = TestConfig
  /\ client = Nil
  /\ ch = [stopCh |-> "open", doneCh |-> "open", triggerCh |-> 0]
  /\ loops = <<>>
  /\ ctl = [c \in Controllers |-> "idle"]
  /\ panicked = "none"
  /\ clock = 1
  /\ \E data \in ClientConfigs \cup ClientSources :
       lastCall = [op |-> "input", data |-> data]

NextClient ==
  \/ CallNewClient
  \/ BuildTestClient
  \/ CallFetchRegistry
  \/ CheckSource
  \/ TestSource
  \/ ProbeSource
  \/ WriteHealth
  \/ FetchSource
  \/ ParseSource
  \/ FetchRegistryFails
  \/ \E t \in DOMAIN srcCalls : CallGetHealthStatus(t)
  \/ \E t \in DOMAIN srcCalls : StatusRead(t)
  \/ \E t \in DOMAIN srcCalls : StatusTest(t)
  \/ \E t \in DOMAIN srcCalls : StatusProbe(t)
  \/ \E t \in DOMAIN srcCalls : StatusWrite(t)
  \/ AdvanceClient

SpecClient == InitClient /\ [][NextClient]_vars

\* ------------------------------------------------------------------------
\* The registry Parser.  The texts are written in the alphabet of the model
\* extended by ';', '|' and the line feed; they hold no quote, no carriage
\* return, so that csv.Reader splits a line at every ';' and both encodings
\* of parseCSV decode a text to itself.
\* ------------------------------------------------------------------------

\* the largest number of data rows of a text
MaxRows == 2

\* strings.Split(s, sep) for a non-empty sep
RECURSIVE Split(_, _)
Split(s, sep) ==
  LET i == Index(s, sep) IN
    IF i = 0 THEN <<s>>
    ELSE <<SubSeq(s, 1, i - 1)>> \o Split(SubSeq(s, i + Len(sep), Len(s)), sep)

\* the leading white space of a field removed (reader.TrimLeadingSpace)
RECURSIVE TrimLeadingSpace(_)
TrimLeadingSpace(s) ==
  IF s # <<>> /\ s[1] = " " THEN TrimLeadingSpace(Tail(s)) ELSE s

\* [a-zA-Z0-9] on the alphabet
IsAlnum(c) == c \in Digits \cup Letters

\* one label of domainPattern: [a-zA-Z0-9]([a-zA-Z0-9\-]{0,61}[a-zA-Z0-9])?
MatchLabel(l) ==
  /\ l # <<>>
  /\ Len(l) <= MaxLabelLen
  /\ IsAlnum(l[1])
  /\ IsAlnum(l[Len(l)])
  /\ \A i \in 1..Len(l) : IsAlnum(l[i]) \/ l[i] = "-"

\* p.domainPattern.MatchString
MatchDomainPattern(e) ==
  \A i \in DOMAIN SplitDot(e) : MatchLabel(SplitDot(e)[i])

\* p.wildcardPattern.MatchString
MatchWildcardPattern(e) ==
  HasPrefix(e, S_star) /\ MatchDomainPattern(TrimPrefix(e, S_star))

\* Parser.stripProtocol
stripProtocol(entry) ==
  LET https == <<"h", "t", "t", "p", "s", ":", "/", "/">>
      http == <<"h", "t", "t", "p", ":", "/", "/">>
      ftp == <<"f", "t", "p", ":", "/", "/">>
      lower == ToLower(entry)
  IN IF HasPrefix(lower, https) THEN SubSeq(entry, Len(https) + 1, Len(entry))
     ELSE IF HasPrefix(lower, http) THEN SubSeq(entry, Len(http) + 1, Len(entry))
     ELSE IF HasPrefix(lower, ftp) THEN SubSeq(entry, Len(ftp) + 1, Len(entry))
     ELSE entry

\* Parser.isIPAddress
isIPAddress(entry) ==
  LET parts == Split(entry, <<":">>)
      host == IF Contains(entry, <<":">>) /\ ~Contains(entry, <<":", ":">>)
                 /\ Len(parts) = 2
              THEN parts[1] ELSE entry
  IN ParseIP(host) # Nil

\* the blocking type categorizeEntry chooses for a lower-cased entry without
\* protocol, BlockingTypeUnknown when it returns an error instead
categorize(entry) ==
  IF HasPrefix(entry, S_star)
  THEN IF MatchWildcardPattern(entry) THEN BlockingTypeWildcard
       ELSE BlockingTypeUnknown
  ELSE IF isIPAddress(entry) THEN BlockingTypeIP
  ELSE IF Contains(entry, <<"/">>) THEN BlockingTypeURLPath
  ELSE IF MatchDomainPattern(entry) THEN BlockingTypeDomain
  ELSE BlockingTypeUnknown

\* Parser.categorizeEntry: [entry, err]; entry is what is added to the
\* registry, Nil when nothing is added
categorizeEntry(entry) ==
  LET value == stripProtocol(ToLower(entry))
      blockingType == categorize(value)
  IN IF blockingType = BlockingTypeUnknown
     THEN [entry |-> Nil,
           err |-> IF HasPrefix(value, S_star) THEN "invalid wildcard format"
                   ELSE "unrecognized entry format"]
     ELSE IF NewRegistryEntry(blockingType, value).err # "nil"
     THEN [entry |-> Nil, err |-> "creating registry entry"]
     ELSE [entry |-> NewRegistryEntry(blockingType, value).entry, err |-> "nil"]

\* the entries the tokens of a URL field add, in order
RECURSIVE tokenEntries(_)
tokenEntries(tokens) ==
  IF tokens = <<>> THEN <<>>
  ELSE LET entry == TrimSpace(Head(tokens)) IN
         (IF entry = <<>> \/ categorizeEntry(entry).entry = Nil THEN <<>>
          ELSE <<categorizeEntry(entry).entry>>)
         \o tokenEntries(Tail(tokens))

\* Parser.parseCSVRecord: [entries, err], entries being what it adds
parseCSVRecord(record) ==
  IF Len(record) < 2 THEN [entries |-> <<>>, err |-> "insufficient columns"]
  ELSE IF TrimSpace(record[2]) = <<>>
  THEN [entries |-> <<>>, err |-> "empty URL field"]
  ELSE [entries |-> tokenEntries(Split(TrimSpace(record[2]), <<"|">>)),
        err |-> "nil"]

\* the fields of one line, as csv.Reader cuts them
csvFields(line) ==
  LET raw == Split(line, <<";">>) IN
    [i \in 1..Len(raw) |-> TrimLeadingSpace(raw[i])]

\* the lines csv.Reader reads records from: the empty ones are skipped
csvLines(text) == SelectSeq(Split(text, <<"\n">>), LAMBDA l : l # <<>>)

\* the records of the successive reader.Read() calls: [record, err];
\* FieldsPerRecord is 0, so the first record sets the number of fields and
\* every record of another length comes with csv.ErrFieldCount
csvReadAll(text) ==
  LET lines == csvLines(text) IN
    [i \in 1..Len(lines) |->
       [record |-> csvFields(lines[i]),
        err |-> IF Len(csvFields(lines[i])) = Len(csvFields(lines[1]))
                THEN "nil" ELSE "ErrFieldCount"]]

\* the entries the records from the i-th on add
RECURSIVE recordEntries(_, _)
recordEntries(reads, i) ==
  IF i > Len(reads) THEN <<>>
  ELSE parseCSVRecord(reads[i].record).entries \o recordEntries(reads, i + 1)

\* the end of parseCSVText without the test of registry.Size()
csvResultAllowsEmpty(entries) ==
  [registry |-> [Entries |-> entries, Source |-> "RKN Registry"], err |-> "nil"]

\* the end of parseCSVText: a registry without entries is refused
csvResult(entries) ==
  IF Len(entries) = 0
  THEN [registry |-> Nil, err |-> "no valid entries found"]
  ELSE [registry |-> [Entries |-> entries, Source |-> "RKN Registry"],
        err |-> "nil"]

\* Parser.parseCSVText: [registry, err]
parseCSVText(text) ==
  LET reads == csvReadAll(text) IN
    IF \E i \in DOMAIN reads : reads[i].err # "nil"
    THEN [registry |-> Nil, err |-> "ErrFieldCount"]
    ELSE csvResult(recordEntries(reads, 2))

\* the three signatures of a ZIP archive
ZipMagics ==
  {<<"P", "K", "x03", "x04">>, <<"P", "K", "x05", "x06">>,
   <<"P", "K", "x07", "x08">>}

\* the number of leading bytes detectFormat looks for a separator in
SampleLen == 1024

\* Parser.detectFormat: [format, err]
detectFormat(data) ==
  LET sample == SubSeq(data, 1, IF Len(data) < SampleLen THEN Len(data)
                                ELSE SampleLen)
  IN IF Len(data) < 4 THEN [format |-> "", err |-> "ErrInvalidFormat"]
     ELSE IF \E magic \in ZipMagics : HasPrefix(data, magic)
     THEN [format |-> "zip", err |-> "nil"]
     ELSE IF Contains(sample, <<";">>) \/ Contains(sample, <<",">>)
     THEN [format |-> "csv", err |-> "nil"]
     ELSE [format |-> "", err |-> "ErrUnsupportedFormat"]

\* Parser.parseCSV: both decodings give the text itself
parseCSV(data) ==
  IF parseCSVText(data).err = "nil" THEN parseCSVText(data)
  ELSE [registry |-> Nil, err |-> "ParsingError csv"]

\* ------------------------------------------------------------------------
\* archive/zip (Go 1.24) as far as Parser.parseZIP uses it: zip.NewReader,
\* File.Open and the reading of a member to its end.  Offsets count from 0.
\* A byte is written with its character where the alphabet has one, and
\* else "x" and two hexadecimal digits.  The data are shorter than 2^24
\* bytes.  ZIP64 records are outside the model: for them the operators
\* have no value.
\* ------------------------------------------------------------------------

\* how the byte n is written when the alphabet has no character for it
ByteName ==
  [n \in 0..255 |-> "x" \o HexDigit(n \div 16) \o HexDigit(n % 16)]

\* the further characters archives and their members are written in
OrdMore ==
  [c \in {"\n", ",", ";", "C", "K", "P", "S", "V", "s", "v", "|"} |->
    CASE c = "\n" -> 10 [] c = "," -> 44 [] c = ";" -> 59 [] c = "C" -> 67
      [] c = "K" -> 75 [] c = "P" -> 80 [] c = "S" -> 83 [] c = "V" -> 86
      [] c = "s" -> 115 [] c = "v" -> 118 [] c = "|" -> 124]

\* the value of a byte
ByteValue ==
  [c \in DOMAIN Ord \cup DOMAIN OrdMore \cup {ByteName[n] : n \in 0..255} |->
     IF c \in DOMAIN Ord THEN Ord[c]
     ELSE IF c \in DOMAIN OrdMore THEN OrdMore[c]
     ELSE CHOOSE n \in 0..255 : ByteName[n] = c]

\* no value: the case is outside the model
Unmodelled == CHOOSE v \in {} : TRUE

\* the element of a set of one element; The({e(v) : v \in {x}}) is e(x)
\* with x computed once
The(S) == CHOOSE v \in S : TRUE

\* data[off]
byteAt(data, off) == ByteValue[data[off + 1]]

\* readBuf.uint16 at offset off
uint16(data, off) == byteAt(data, off) + 256 * byteAt(data, off + 1)

\* readBuf.uint32 at offset off: the three low bytes as a number, and the
\* high byte
uint32(data, off) ==
  [lo |-> uint16(data, off) + 65536 * byteAt(data, off + 2),
   hi |-> byteAt(data, off + 3)]

\* ^uint32(0)
IsMaxUint32(v) == v.hi = 255 /\ v.lo = 16777215

\* a distance beyond every offset into the data
Far == 2 * 256 * 256 * 256

\* int64(a) - int64(b) for two uint32, exact within the data and Far or
\* -Far when it is further than that
diff32(a, b) ==
  IF a.hi - b.hi >= 2 THEN Far
  ELSE IF b.hi - a.hi >= 2 THEN -Far
  ELSE (a.hi - b.hi) * 16777216 + a.lo - b.lo

\* the signature 'P' 'K' a b
PK(a, b) == <<80, 75, a, b>>

\* the four bytes at offset off are the signature
sigAt(data, off, sig) ==
  /\ off >= 0
  /\ off + 4 <= Len(data)
  /\ \A i \in 1..4 : byteAt(data, off + i - 1) = sig[i]

\* the IEEE polynomial 0xedb88320, low byte first
crcPoly == <<32, 131, 184, 237>>

\* one bit of the CRC register c (four bytes, low byte first) shifted out
crcShift(c) ==
  LET half == <<(c[1] \div 2) + (c[2] % 2) * 128,
                (c[2] \div 2) + (c[3] % 2) * 128,
                (c[3] \div 2) + (c[4] % 2) * 128,
                c[4] \div 2>>
  IN IF c[1] % 2 = 1
     THEN <<XorByte(half[1], crcPoly[1]), XorByte(half[2], crcPoly[2]),
            XorByte(half[3], crcPoly[3]), XorByte(half[4], crcPoly[4])>>
     ELSE half

RECURSIVE crcBits(_, _)
crcBits(c, k) ==
  IF k = 0 THEN c
  ELSE The({crcBits(s, k - 1) : s \in {crcShift(c)}})

\* crc32.IEEETable: the register after the eight bits of the byte n
crcTable == [n \in 0..255 |-> crcBits(<<n, 0, 0, 0>>, 8)]

\* crc = tab[byte(crc)^v] ^ (crc >> 8) for the bytes i to j of the data,
\* by halves
RECURSIVE crcUpdate(_, _, _, _)
crcUpdate(c, data, i, j) ==
  IF i > j THEN c
  ELSE IF i = j
  THEN The({The({<<XorByte(r[2], t[1]), XorByte(r[3], t[2]),
                   XorByte(r[4], t[3]), t[4]>> :
                   t \in {crcTable[XorByte(r[1], ByteValue[data[i]])]}}) :
              r \in {c}})
  ELSE The({crcUpdate(m, data, (i + j) \div 2 + 1, j) :
              m \in {crcUpdate(c, data, i, (i + j) \div 2)}})

\* crc32.ChecksumIEEE(data), low byte first
crc32(data) ==
  The({The({<<255 - c[1], 255 - c[2], 255 - c[3], 255 - c[4]>> :
              c \in {crcUpdate(<<255, 255, 255, 255>>, bs, 1, Len(bs))}}) :
         bs \in {data}})

\* ------------------------------------------------------------------------
\* compress/flate (Go 1.24) as File.Open uses it for a member of method 8:
\* the reader of a DEFLATE stream (RFC 1951).  The bits of the stream are
\* counted from 0, the low bit of every byte first.  The errors are those
\* of the reader without the offset its message for corrupt input ends
\* with.  The loops of the reader are run by halves, so that a long stream
\* needs no deep recursion.
\* ------------------------------------------------------------------------

\* the byte of value n as the alphabet writes it
ByteOf ==
  [n \in 0..255 |->
     IF \E c \in DOMAIN Ord : Ord[c] = n THEN CHOOSE c \in DOMAIN Ord : Ord[c] = n
     ELSE IF \E c \in DOMAIN OrdMore : OrdMore[c] = n
     THEN CHOOSE c \in DOMAIN OrdMore : OrdMore[c] = n
     ELSE ByteName[n]]

\* the function f on 1..n as a tuple
Tuple(f) == f \o <<>>

\* the bits of the stream from the k-th on
bitsLeft(comp, k) == 8 * Len(comp) - k

\* the byte at offset off of the stream, 0 behind its end
streamByte(comp, off) == IF off < Len(comp) THEN byteAt(comp, off) ELSE 0

\* the bits from the k-th on as a number, the first of them lowest: 17 of
\* them at least, and 0 for those behind the end of the stream
bitWindow(comp, k) ==
  (streamByte(comp, k \div 8) + 256 * streamByte(comp, k \div 8 + 1)
     + 65536 * streamByte(comp, k \div 8 + 2)) \div (2 ^ (k % 8))

\* the n bits from the k-th on as a number, the first of them lowest; n is
\* at most 13
bitsAt(comp, k, n) == bitWindow(comp, k) % (2 ^ n)

\* the 15 bits from the k-th on as a number, the first of them highest: a
\* Huffman code is written with its high bit first
codeBitsAt(comp, k) ==
  The({16384 * (w % 2) + 8192 * ((w \div 2) % 2) + 4096 * ((w \div 4) % 2)
         + 2048 * ((w \div 8) % 2) + 1024 * ((w \div 16) % 2)
         + 512 * ((w \div 32) % 2) + 256 * ((w \div 64) % 2)
         + 128 * ((w \div 128) % 2) + 64 * ((w \div 256) % 2)
         + 32 * ((w \div 512) % 2) + 16 * ((w \div 1024) % 2)
         + 8 * ((w \div 2048) % 2) + 4 * ((w \div 4096) % 2)
         + 2 * ((w \div 8192) % 2) + ((w \div 16384) % 2) :
         w \in {bitWindow(comp, k)}})

\* the first code of the length l, counts[j] being the number of codes of
\* the length j: the codes of one length follow each other, and those of
\* the next length follow them with one bit more
RECURSIVE firstCode(_, _)
firstCode(counts, l) ==
  IF l = 1 THEN 0 ELSE 2 * (firstCode(counts, l - 1) + counts[l - 1])

\* huffmanDecoder.init: the decoder of the canonical code with the code
\* lengths lens, where lens[s + 1] is the code length of the symbol s and
\* 0 if it has no code.  ok is what init returns: there is no code at all,
\* or the codes use every bit sequence of the greatest length, or there is
\* one code of one bit
huffmanDecoder(lens) ==
  The({The({The({The({[lens |-> ls,
                  counts |-> counts,
                  first |-> Tuple([l \in 1..15 |-> firstCode(counts, l)]),
                  min |-> IF used = {} THEN 0
                          ELSE CHOOSE l \in used : \A m \in used : l <= m,
                  max |-> max,
                  ok |-> \/ max = 0
                         \/ 2 * (firstCode(counts, max) + counts[max]) = 2 ^ (max + 1)
                         \/ max = 1 /\ counts[1] = 1] :
                   max \in {IF used = {} THEN 0
                            ELSE CHOOSE l \in used : \A m \in used : m <= l}}) :
              used \in {{l \in 1..15 : counts[l] > 0}}}) :
         counts \in {Tuple([l \in 1..15 |->
                              Cardinality({s \in DOMAIN ls : ls[s] = l})])}}) :
    ls \in {Tuple(lens)}})

\* decompressor.huffSym at bit k: [sym, next, err].  The reader first
\* wants h.min bits.  The symbol is that of the shortest code the bits
\* begin with: of the codes of one length the symbols have the order of
\* their values.  A bit sequence without code is corrupt input
huffSym(comp, h, k) ==
  LET left == bitsLeft(comp, k)
      failed(e) == [sym |-> 0, next |-> k, err |-> e]
      found(code, l) ==
        LET has(s) == h.lens[s + 1] = l
        IN [sym |-> SelectSeq([s \in DOMAIN h.lens |-> s - 1], has)[
                      code \div (2 ^ (15 - l)) - h.first[l] + 1],
            next |-> k + l, err |-> "nil"]
  IN IF left < h.min THEN failed("unexpected EOF")
     ELSE The({The({IF fits # {}
                    THEN found(code, CHOOSE l \in fits : \A m \in fits : l <= m)
                    ELSE IF left < h.max THEN failed("unexpected EOF")
                    ELSE failed("flate: corrupt input") :
                      fits \in {{l \in 1..h.max :
                                   /\ l <= left
                                   /\ code \div (2 ^ (15 - l)) - h.first[l]
                                        < h.counts[l]}}}) :
                code \in {codeBitsAt(comp, k)}})

\* the code lengths of fixedHuffmanDecoderInit
fixedLengths ==
  [s \in 1..288 |-> IF s <= 144 THEN 8 ELSE IF s <= 256 THEN 9
                    ELSE IF s <= 280 THEN 7 ELSE 8]

fixedHuffmanDecoder == huffmanDecoder(fixedLengths)

\* the order the lengths of the code length code are written in
codeOrder ==
  <<16, 17, 18, 0, 8, 7, 9, 6, 10, 5, 11, 4, 12, 3, 13, 2, 14, 1, 15>>

\* one turn of the loop of readHuffman that reads n code lengths with the
\* code h1: st is [lens, next, err].  The symbols 16, 17 and 18 repeat the
\* length before or 0, as often as their extra bits say
lengthStep(comp, h1, st, n) ==
  LET failed(k, e) == [lens |-> st.lens, next |-> k, err |-> e]
      nb(sym) == IF sym = 16 THEN 2 ELSE IF sym = 17 THEN 3 ELSE 7
  IN IF st.err # "nil" \/ Len(st.lens) >= n THEN st
     ELSE The({IF x.err # "nil" THEN failed(x.next, x.err)
               ELSE IF x.sym < 16
               THEN [lens |-> Append(st.lens, x.sym), next |-> x.next,
                     err |-> "nil"]
               ELSE IF x.sym = 16 /\ Len(st.lens) = 0
               THEN failed(x.next, "flate: corrupt input")
               ELSE IF bitsLeft(comp, x.next) < nb(x.sym)
               THEN failed(x.next, "unexpected EOF")
               ELSE The({IF Len(st.lens) + rep > n
                         THEN failed(x.next + nb(x.sym), "flate: corrupt input")
                         ELSE [lens |-> st.lens \o [i \in 1..rep |->
                                          IF x.sym = 16
                                          THEN st.lens[Len(st.lens)] ELSE 0],
                               next |-> x.next + nb(x.sym), err |-> "nil"] :
                           rep \in {(IF x.sym = 18 THEN 11 ELSE 3)
                                      + bitsAt(comp, x.next, nb(x.sym))}}) :
                 x \in {huffSym(comp, h1, st.next)}})

\* turns of that loop: st after at most steps of them
RECURSIVE readLengths(_, _, _, _, _)
readLengths(comp, h1, st, n, steps) ==
  IF st.err # "nil" \/ Len(st.lens) >= n THEN st
  ELSE IF steps <= 1 THEN The({lengthStep(comp, h1, s, n) : s \in {st}})
  ELSE The({readLengths(comp, h1, mid, n, steps - steps \div 2) :
              mid \in {readLengths(comp, h1, st, n, steps \div 2)}})

\* decompressor.readHuffman at bit k: [hl, hd, next, err].  Five bits say
\* how many literal and length codes there are, five how many distance
\* codes and four how many lengths of the code length code; the decoder
\* of the literals and lengths wants at least the bits of the
\* end-of-block code
readHuffman(comp, k) ==
  LET failed(e) == [hl |-> Nil, hd |-> Nil, next |-> k, err |-> e]
      codebits(nclen) ==
        [s \in 1..19 |->
           IF \E i \in 1..nclen : codeOrder[i] = s - 1
           THEN bitsAt(comp, k + 14 + 3 * ((CHOOSE i \in 1..nclen :
                                             codeOrder[i] = s - 1) - 1), 3)
           ELSE 0]
      codes(nlit, ndist, start, h1) ==
        The({IF r.err # "nil" THEN failed(r.err)
             ELSE The({IF ~hl.ok \/ ~hd.ok THEN failed("flate: corrupt input")
                       ELSE [hl |-> [hl EXCEPT !.min = IF @ < r.lens[257]
                                                       THEN r.lens[257] ELSE @],
                             hd |-> hd, next |-> r.next, err |-> "nil"] :
                         hl \in {huffmanDecoder(SubSeq(r.lens, 1, nlit))},
                         hd \in {huffmanDecoder(SubSeq(r.lens, nlit + 1,
                                                       nlit + ndist))}}) :
               r \in {readLengths(comp, h1,
                                  [lens |-> <<>>, next |-> start, err |-> "nil"],
                                  nlit + ndist, nlit + ndist)}})
  IN IF bitsLeft(comp, k) < 14 THEN failed("unexpected EOF")
     ELSE The({IF nlit > 286 \/ ndist > 30 THEN failed("flate: corrupt input")
               ELSE IF bitsLeft(comp, k + 14) < 3 * nclen
               THEN failed("unexpected EOF")
               ELSE The({IF ~h1.ok THEN failed("flate: corrupt input")
                         ELSE codes(nlit, ndist, k + 14 + 3 * nclen, h1) :
                           h1 \in {huffmanDecoder(codebits(nclen))}}) :
                 nlit \in {bitsAt(comp, k, 5) + 257},
                 ndist \in {bitsAt(comp, k + 5, 5) + 1},
                 nclen \in {bitsAt(comp, k + 10, 4) + 4}})

\* the length a length symbol stands for before its extra bits, and the
\* number of these
lengthOf(v) ==
  IF v < 265 THEN [base |-> v - 254, extra |-> 0]
  ELSE IF v < 269 THEN [base |-> v * 2 - 519, extra |-> 1]
  ELSE IF v < 273 THEN [base |-> v * 4 - 1057, extra |-> 2]
  ELSE IF v < 277 THEN [base |-> v * 8 - 2149, extra |-> 3]
  ELSE IF v < 281 THEN [base |-> v * 16 - 4365, extra |-> 4]
  ELSE IF v < 285 THEN [base |-> v * 32 - 8861, extra |-> 5]
  ELSE [base |-> 258, extra |-> 0]

\* the distance a distance symbol stands for before its extra bits, and
\* the number of these
distOf(d) ==
  IF d < 4 THEN [base |-> d + 1, extra |-> 0]
  ELSE [base |-> 2 ^ ((d - 2) \div 2 + 1) + 1 + (d % 2) * (2 ^ ((d - 2) \div 2)),
        extra |-> (d - 2) \div 2]

\* the distance symbol at bit k: of the code hd, and five bits with the
\* high bit first when the block has the fixed code
distSym(comp, hd, fixed, k) ==
  IF ~fixed THEN huffSym(comp, hd, k)
  ELSE IF bitsLeft(comp, k) < 5
  THEN [sym |-> 0, next |-> k, err |-> "unexpected EOF"]
  ELSE [sym |-> codeBitsAt(comp, k) \div 1024, next |-> k + 5, err |-> "nil"]

\* the output with n bytes more, copied from dist bytes before its end on:
\* the copy may run into what it writes
copyBack(out, dist, n) ==
  out \o [i \in 1..n |-> out[Len(out) - dist + 1 + ((i - 1) % dist)]]

\* the state of the reader in a block or behind it: the next bit, the
\* output so far, and the error; "nil" in the block, "end" behind it
flateAt(k, out, e) == [k |-> k, out |-> out, err |-> e]

\* what follows a length symbol v in decompressor.huffmanBlock: the extra
\* bits of the length, the distance symbol and its extra bits, and the
\* copy
huffmanCopy(comp, hd, fixed, out, v, ln) ==
  IF bitsLeft(comp, v.next) < ln.extra
  THEN flateAt(v.next, out, "unexpected EOF")
  ELSE The({IF d.err # "nil" THEN flateAt(d.next, out, d.err)
            ELSE IF d.sym >= 30 THEN flateAt(d.next, out, "flate: corrupt input")
            ELSE The({IF bitsLeft(comp, d.next) < ds.extra
                      THEN flateAt(d.next, out, "unexpected EOF")
                      ELSE The({IF dist > Len(out)
                                THEN flateAt(d.next + ds.extra, out,
                                             "flate: corrupt input")
                                ELSE flateAt(d.next + ds.extra,
                                             copyBack(out, dist,
                                                      ln.base + bitsAt(comp, v.next,
                                                                       ln.extra)),
                                             "nil") :
                                  dist \in {ds.base + bitsAt(comp, d.next,
                                                             ds.extra)}}) :
                        ds \in {distOf(d.sym)}}) :
              d \in {distSym(comp, hd, fixed, v.next + ln.extra)}})

\* one turn of the loop of decompressor.huffmanBlock: a literal, a copy
\* or the end of the block
huffmanStep(comp, hl, hd, fixed, st) ==
  The({IF v.err # "nil" THEN flateAt(v.next, st.out, v.err)
       ELSE IF v.sym < 256
       THEN flateAt(v.next, Append(st.out, ByteOf[v.sym]), "nil")
       ELSE IF v.sym = 256 THEN flateAt(v.next, st.out, "end")
       ELSE IF v.sym >= 286 THEN flateAt(v.next, st.out, "flate: corrupt input")
       ELSE The({huffmanCopy(comp, hd, fixed, st.out, v, ln) :
                   ln \in {lengthOf(v.sym)}}) :
         v \in {huffSym(comp, hl, st.k)}})

\* decompressor.huffmanBlock: st after at most steps turns of its loop
RECURSIVE huffmanBlock(_, _, _, _, _, _)
huffmanBlock(comp, hl, hd, fixed, st, steps) ==
  IF st.err # "nil" THEN st
  ELSE IF steps <= 1 THEN The({huffmanStep(comp, hl, hd, fixed, s) : s \in {st}})
  ELSE The({huffmanBlock(comp, hl, hd, fixed, mid, steps - steps \div 2) :
              mid \in {huffmanBlock(comp, hl, hd, fixed, st, steps \div 2)}})

\* decompressor.dataBlock and copyData: the stored block whose header ends
\* before bit k; its length and the complement of it begin at the next
\* whole byte
dataBlock(comp, k, out) ==
  LET p == (k + 7) \div 8
      n == uint16(comp, p)
      have == Len(comp) - (p + 4)
  IN IF Len(comp) - p < 4 THEN flateAt(k, out, "unexpected EOF")
     ELSE IF uint16(comp, p + 2) # 65535 - n
     THEN flateAt(8 * (p + 4), out, "flate: corrupt input")
     ELSE IF have < n
     THEN flateAt(8 * Len(comp),
                  out \o [i \in 1..have |-> ByteOf[byteAt(comp, p + 3 + i)]],
                  "unexpected EOF")
     ELSE flateAt(8 * (p + 4 + n),
                  out \o [i \in 1..n |-> ByteOf[byteAt(comp, p + 3 + i)]],
                  "end")

\* the block of type typ whose header ends before bit k; a symbol takes a
\* bit at least, so the bits left bound the turns of the loop
flateBlock(comp, typ, k, out) ==
  IF typ = 0 THEN dataBlock(comp, k, out)
  ELSE IF typ = 1
  THEN huffmanBlock(comp, fixedHuffmanDecoder, fixedHuffmanDecoder, TRUE,
                    flateAt(k, out, "nil"), bitsLeft(comp, k) + 1)
  ELSE IF typ = 2
  THEN The({IF h.err # "nil" THEN flateAt(h.next, out, h.err)
            ELSE huffmanBlock(comp, h.hl, h.hd, FALSE,
                              flateAt(h.next, out, "nil"),
                              bitsLeft(comp, h.next) + 1) :
              h \in {readHuffman(comp, k)}})
  ELSE flateAt(k, out, "flate: corrupt input")

\* decompressor.nextBlock and what follows it, block after block from bit
\* k on: [data, err], where err is "EOF" behind the final block
RECURSIVE inflateFrom(_, _, _)
inflateFrom(comp, k, out) ==
  IF bitsLeft(comp, k) < 3 THEN [data |-> out, err |-> "unexpected EOF"]
  ELSE The({IF b.err # "end" THEN [data |-> b.out, err |-> b.err]
            ELSE IF bitsAt(comp, k, 1) = 1 THEN [data |-> b.out, err |-> "EOF"]
            ELSE inflateFrom(comp, b.k, b.out) :
              b \in {flateBlock(comp, bitsAt(comp, k + 1, 2), k + 3, out)}})

\* what is read from flate.NewReader on the stream comp until it ends
inflate(comp) == inflateFrom(comp, 0, <<>>)

\* ------------------------------------------------------------------------
\* archive/zip: the directory and the members
\* ------------------------------------------------------------------------

\* the loop over the extra fields in readDirectoryHeader: the n bytes at
\* offset off hold a field with the tag 1 of ZIP64; a field is a tag, a
\* size and as many bytes, and the loop ends at a field that does not fit
RECURSIVE hasZip64Extra(_, _, _)
hasZip64Extra(data, off, n) ==
  IF n < 4 \/ n - 4 < uint16(data, off + 2) THEN FALSE
  ELSE IF uint16(data, off) = 1 THEN TRUE
  ELSE hasZip64Extra(data, off + 4 + uint16(data, off + 2),
                     n - 4 - uint16(data, off + 2))

\* readDirectoryHeader at offset pos of the data: [err, next, file]; the
\* 46 bytes of the header are followed by name, extra and comment.  A
\* header whose compressed size or offset is ^uint32(0) is refused when
\* no ZIP64 extra field gives the value; with such a field the header is
\* outside the model
readDirectoryHeader(data, pos) ==
  LET avail == Len(data) - pos
      need == uint16(data, pos + 28) + uint16(data, pos + 30)
                + uint16(data, pos + 32)
      failed(e) == [err |-> e, next |-> pos, file |-> Nil]
  IN IF avail <= 0 THEN failed("EOF")
     ELSE IF avail < 46 THEN failed("unexpected EOF")
     ELSE IF ~sigAt(data, pos, PK(1, 2)) THEN failed("zip: not a valid zip file")
     ELSE IF need > 0 /\ avail = 46 THEN failed("EOF")
     ELSE IF avail - 46 < need THEN failed("unexpected EOF")
     ELSE IF /\ \/ IsMaxUint32(uint32(data, pos + 20))
                \/ IsMaxUint32(uint32(data, pos + 24))
                \/ IsMaxUint32(uint32(data, pos + 42))
             /\ hasZip64Extra(data, pos + 46 + uint16(data, pos + 28),
                              uint16(data, pos + 30))
     THEN Unmodelled
     ELSE IF IsMaxUint32(uint32(data, pos + 20))
             \/ IsMaxUint32(uint32(data, pos + 42))
     THEN failed("zip: not a valid zip file")
     ELSE [err |-> "nil", next |-> pos + 46 + need,
           file |-> [Name |-> SubSeq(data, pos + 47,
                                     pos + 46 + uint16(data, pos + 28)),
                     Flags |-> uint16(data, pos + 8),
                     Method |-> uint16(data, pos + 10),
                     CRC32 |-> [i \in 1..4 |-> byteAt(data, pos + 15 + i)],
                     CompressedSize |-> uint32(data, pos + 20),
                     UncompressedSize |-> uint32(data, pos + 24),
                     headerOffset |-> uint32(data, pos + 42)]]

\* the loop of Reader.init: the headers read from offset pos on, and the
\* error that ended the reading: [files, err]
RECURSIVE readDirectory(_, _)
readDirectory(data, pos) ==
  The({IF h.err # "nil" THEN [files |-> <<>>, err |-> h.err]
       ELSE The({[files |-> <<h.file>> \o rest.files, err |-> rest.err] :
                   rest \in {readDirectory(data, h.next)}}) :
         h \in {readDirectoryHeader(data, pos)}})

\* findSignatureInBlock: the offset in b of the last end-of-directory
\* signature that has 22 bytes from it on, -1 if there is none or if its
\* comment does not fit into b
findSignatureInBlock(b) ==
  The({The({IF found = {} THEN -1
            ELSE The({IF uint16(blk, i + 20) + 22 + i > Len(blk) THEN -1
                      ELSE i :
                        i \in {CHOOSE j \in found : \A k \in found : k <= j}}) :
              found \in {{i \in 0..(Len(blk) - 22) : sigAt(blk, i, PK(5, 6))}}}) :
         blk \in {b}})

\* the offset readDirectoryEnd finds the end record at, looking in the
\* last 1024 bytes and then in the last 65*1024; -1 if nowhere
directoryEndOffset(data) ==
  LET size == Len(data)
      len1 == IF size < 1024 THEN size ELSE 1024
      len2 == IF size < 66560 THEN size ELSE 66560
  IN The({IF p1 >= 0 THEN size - len1 + p1
          ELSE IF len1 = size THEN -1
          ELSE The({IF p2 >= 0 THEN size - len2 + p2 ELSE -1 :
                      p2 \in {findSignatureInBlock(
                                SubSeq(data, size - len2 + 1, size))}}) :
            p1 \in {findSignatureInBlock(SubSeq(data, size - len1 + 1, size))}})

\* readDirectoryEnd: [err, records, start, plus, minus]; the directory is
\* read from offset start, and a header offset h of the directory stands
\* for the offset h - minus + plus of the data (baseOffset is plus - minus)
readDirectoryEnd(data) ==
  LET size == Len(data)
      failed(e) == [err |-> e, records |-> 0, start |-> 0, plus |-> 0,
                    minus |-> [lo |-> 0, hi |-> 0]]
      at(p) ==
        LET records == uint16(data, p + 10)
            dirSize == uint32(data, p + 12)
            dirOffset == uint32(data, p + 16)
            maybe64 == \/ records = 65535
                       \/ dirSize.hi = 0 /\ dirSize.lo = 65535
                       \/ IsMaxUint32(dirOffset)
            has64 == /\ maybe64
                     /\ sigAt(data, p - 20, PK(6, 7))
                     /\ uint32(data, p - 16) = [lo |-> 0, hi |-> 0]
                     /\ uint32(data, p - 4) = [lo |-> 1, hi |-> 0]
            o == p - dirSize.lo
            rebase == /\ dirOffset.hi = 0
                      /\ dirOffset.lo < o
                      /\ readDirectoryHeader(data, dirOffset.lo).err = "nil"
        IN IF p < 0 THEN failed("zip: not a valid zip file")
           ELSE IF uint16(data, p + 20) > size - p - 22
           THEN failed("zip: invalid comment length")
           ELSE IF has64 THEN Unmodelled
           ELSE IF dirSize.hi # 0 \/ o < 0 \/ o >= size
           THEN failed("zip: not a valid zip file")
           ELSE IF rebase
           THEN [err |-> "nil", records |-> records, start |-> dirOffset.lo,
                 plus |-> 0, minus |-> [lo |-> 0, hi |-> 0]]
           ELSE [err |-> "nil", records |-> records, start |-> o,
                 plus |-> o, minus |-> dirOffset]
  IN The({at(p) : p \in {directoryEndOffset(data)}})

\* zip.NewReader(bytes.NewReader(data), len(data)): [files, err]; the
\* number of headers read is compared with the count of the end record in
\* 16 bits
zipNewReader(data) ==
  The({IF end.err # "nil" THEN [files |-> <<>>, err |-> end.err]
       ELSE The({IF dir.err = "EOF" THEN [files |-> <<>>, err |-> "EOF"]
                 ELSE IF Len(dir.files) % 65536 # end.records
                 THEN [files |-> <<>>, err |-> dir.err]
                 ELSE [files |-> [i \in DOMAIN dir.files |->
                                    [dir.files[i] EXCEPT !.headerOffset =
                                       diff32(@, end.minus) + end.plus]],
                       err |-> "nil"] :
                   dir \in {readDirectory(data, end.start)}}) :
         end \in {readDirectoryEnd(data)}})

\* File.Open on a member f and io.ReadAll of what it returns: [data, err].
\* The body follows the local header, its name and its extra; a stored
\* member is read as far as the data go and a deflated one as its stream
\* says.  What is read must have the uncompressed size of the directory;
\* its CRC-32 is compared with that of the directory, and with that of the
\* data descriptor when flag bit 3 says there is one
readFile(data, f) ==
  LET size == Len(data)
      h == f.headerOffset
      body == h + 30 + uint16(data, h + 26) + uint16(data, h + 28)
      csize == IF f.CompressedSize.hi # 0 THEN Far ELSE f.CompressedSize.lo
      n == IF body >= size THEN 0
           ELSE IF csize < size - body THEN csize ELSE size - body
      desc == body + csize
      descLen == IF desc >= size THEN 0
                 ELSE IF size - desc < 16 THEN size - desc ELSE 16
      descSig == descLen >= 4 /\ sigAt(data, desc, PK(7, 8))
      descCRC == <<byteAt(data, desc + (IF descSig THEN 4 ELSE 0)),
                   byteAt(data, desc + (IF descSig THEN 4 ELSE 0) + 1),
                   byteAt(data, desc + (IF descSig THEN 4 ELSE 0) + 2),
                   byteAt(data, desc + (IF descSig THEN 4 ELSE 0) + 3)>>
      failed(e) == [data |-> <<>>, err |-> e]
      read(r, sum) ==
        IF f.UncompressedSize.hi = 0 /\ Len(r.data) > f.UncompressedSize.lo
        THEN failed("zip: not a valid zip file")
        ELSE IF r.err # "EOF" THEN failed(r.err)
        ELSE IF f.UncompressedSize.hi # 0 \/ Len(r.data) < f.UncompressedSize.lo
        THEN failed("unexpected EOF")
        ELSE IF (f.Flags \div 8) % 2 = 1
        THEN IF descLen < (IF descSig THEN 16 ELSE 12)
             THEN failed("unexpected EOF")
             ELSE IF descCRC # f.CRC32 \/ sum # f.CRC32
             THEN failed("zip: checksum error")
             ELSE [data |-> r.data, err |-> "nil"]
        ELSE IF f.CRC32 # <<0, 0, 0, 0>> /\ sum # f.CRC32
        THEN failed("zip: checksum error")
        ELSE [data |-> r.data, err |-> "nil"]
  IN IF h < 0 THEN failed("bytes.Reader.ReadAt: negative offset")
     ELSE IF h + 30 > size THEN failed("EOF")
     ELSE IF ~sigAt(data, h, PK(3, 4)) THEN failed("zip: not a valid zip file")
     ELSE IF f.Method # 0 /\ f.Method # 8
     THEN failed("zip: unsupported compression algorithm")
     ELSE The({The({read(r, sum) : sum \in {crc32(r.data)}}) :
                 r \in {IF f.Method = 0
                        THEN [data |-> SubSeq(data, body + 1, body + n),
                              err |-> "EOF"]
                        ELSE inflate(SubSeq(data, body + 1, body + n))}})

S_csv == <<".", "c", "s", "v">>

\* the loop of parseZIP from the i-th file on: what parseCSV gives for the
\* first member named *.csv that is read and parsed without error, Nil if
\* there is none
RECURSIVE firstCSV(_, _, _)
firstCSV(data, files, i) ==
  IF i > Len(files) THEN Nil
  ELSE IF ~HasSuffix(ToLower(files[i].Name), S_csv)
  THEN firstCSV(data, files, i + 1)
  ELSE The({IF rc.err # "nil" THEN firstCSV(data, files, i + 1)
            ELSE The({IF r.err = "nil" THEN r
                      ELSE firstCSV(data, files, i + 1) :
                        r \in {parseCSV(rc.data)}}) :
              rc \in {readFile(data, files[i])}})

\* Parser.parseZIP: [registry, err]
parseZIP(data) ==
  The({IF reader.err # "nil"
       THEN [registry |-> Nil, err |-> "ParsingError zip: opening ZIP"]
       ELSE The({IF r # Nil THEN r
                 ELSE [registry |-> Nil,
                       err |-> "ParsingError zip: no valid CSV found"] :
                   r \in {firstCSV(data, reader.files, 1)}}) :
         reader \in {zipNewReader(data)}})

\* Parser.Parse: [registry, err]
Parse(data) ==
  IF Len(data) = 0 THEN [registry |-> Nil, err |-> "ErrEmptyData"]
  ELSE IF detectFormat(data).err # "nil"
  THEN [registry |-> Nil, err |-> "detecting format"]
  ELSE IF detectFormat(data).format = "csv" THEN parseCSV(data)
  ELSE parseZIP(data)

\* the header line and the data lines the texts are made of
L_header == <<"b", ";", "c">>
L_domain == <<"1", ";">> \o S_abc
L_three == <<"2", ";">> \o S_dc \o <<";", "3">>
L_one == <<"4">>
L_noURL == <<"5", ";", " ">>
L_bad == <<"6", ";", "b", ".", ".", "c">>
L_multi == <<"7", ";", " ">> \o S_star \o S_bc \o <<"|", "|">> \o S_ip
L_mixed == <<"8", ";", "-", "c", "|">> \o S_Bc

DataLines == {L_domain, L_three, L_one, L_noURL, L_bad, L_multi, L_mixed}

\* strings.Join(lines, "\n")
RECURSIVE JoinLines(_)
JoinLines(lines) ==
  IF Len(lines) = 0 THEN <<>>
  ELSE IF Len(lines) = 1 THEN lines[1]
  ELSE lines[1] \o <<"\n">> \o JoinLines(Tail(lines))

\* a ZIP signature followed by two bytes
T_zipBad == <<"P", "K", "x03", "x04", "x00", "x00">>

\* a registry whose first separator lies behind the sample of detectFormat
T_long == [i \in 1..SampleLen |-> "b"] \o <<";", "c", "\n">> \o L_domain

\* the ZIP archive without file: the end-of-central-directory record alone
T_zipEmpty ==
  <<"P", "K", "x05", "x06", "x00", "x00", "x00", "x00", "x00", "x00", "x00",
    "x00", "x00", "x00", "x00", "x00", "x00", "x00", "x00", "x00", "x00",
    "x00">>

\* the archives are written as zipfile of Python stores their members: for
\* each member a local file header (30 bytes), its name and its data, then
\* for each a central directory header (46 bytes) and its name, then the
\* end-of-central-directory record (22 bytes).

\* d.csv = "b;c\n1;a.b.c", CRC-32 0x17fbbf8b
Z_domain ==
  <<"P", "K", "x03", "x04", "x14", "x00", "x00", "x00", "x00", "x00", "x00",
    "x00", "x21", "x00", "x8b", "xbf", "xfb", "x17", "x0b", "x00", "x00",
    "x00", "x0b", "x00", "x00", "x00", "x05", "x00", "x00", "x00", "d", ".",
    "c", "s", "v", "b", ";", "c", "\n", "1", ";", "a", ".", "b", ".", "c",
    "P", "K", "x01", "x02", "x14", "x03", "x14", "x00", "x00", "x00", "x00",
    "x00", "x00", "x00", "x21", "x00", "x8b", "xbf", "xfb", "x17", "x0b",
    "x00", "x00", "x00", "x0b", "x00", "x00", "x00", "x05", "x00", "x00",
    "x00", "x00", "x00", "x00", "x00", "x00", "x00", "x00", "x00", "x80",
    "x01", "x00", "x00", "x00", "x00", "d", ".", "c", "s", "v", "P", "K",
    "x05", "x06", "x00", "x00", "x00", "x00", "x01", "x00", "x01", "x00",
    "3", "x00", "x00", "x00", ".", "x00", "x00", "x00", "x00", "x00">>

\* d.csv = "b;c\n4", a row of one field, and B.CSV = "b;c\n7; *.b.c||1.2.3.4"
Z_two ==
  <<"P", "K", "x03", "x04", "x14", "x00", "x00", "x00", "x00", "x00", "x00",
    "x00", "x21", "x00", "xd6", "xc5", "0", "x93", "x05", "x00", "x00",
    "x00", "x05", "x00", "x00", "x00", "x05", "x00", "x00", "x00", "d", ".",
    "c", "s", "v", "b", ";", "c", "\n", "4", "P", "K", "x03", "x04", "x14",
    "x00", "x00", "x00", "x00", "x00", "x00", "x00", "x21", "x00", "xa9",
    "x75", "x48", "xdb", "x15", "x00", "x00", "x00", "x15", "x00", "x00",
    "x00", "x05", "x00", "x00", "x00", "B", ".", "C", "S", "V", "b", ";",
    "c", "\n", "7", ";", " ", "*", ".", "b", ".", "c", "|", "|", "1", ".",
    "2", ".", "3", ".", "4", "P", "K", "x01", "x02", "x14", "x03", "x14",
    "x00", "x00", "x00", "x00", "x00", "x00", "x00", "x21", "x00", "xd6",
    "xc5", "0", "x93", "x05", "x00", "x00", "x00", "x05", "x00", "x00",
    "x00", "x05", "x00", "x00", "x00", "x00", "x00", "x00", "x00", "x00",
    "x00", "x00", "x00", "x80", "x01", "x00", "x00", "x00", "x00", "d", ".",
    "c", "s", "v", "P", "K", "x01", "x02", "x14", "x03", "x14", "x00",
    "x00", "x00", "x00", "x00", "x00", "x00", "x21", "x00", "xa9", "x75",
    "x48", "xdb", "x15", "x00", "x00", "x00", "x15", "x00", "x00", "x00",
    "x05", "x00", "x00", "x00", "x00", "x00", "x00", "x00", "x00", "x00",
    "x00", "x00", "x80", "x01", "x28", "x00", "x00", "x00", "B", ".", "C",
    "S", "V", "P", "K", "x05", "x06", "x00", "x00", "x00", "x00", "x02",
    "x00", "x02", "x00", "f", "x00", "x00", "x00", "x60", "x00", "x00",
    "x00", "x00", "x00">>

\* d.csv = "b;c", a header alone
Z_header ==
  <<"P", "K", "x03", "x04", "x14", "x00", "x00", "x00", "x00", "x00", "x00",
    "x00", "x21", "x00", "x86", "x19", "x1b", "x5c", "x03", "x00", "x00",
    "x00", "x03", "x00", "x00", "x00", "x05", "x00", "x00", "x00", "d", ".",
    "c", "s", "v", "b", ";", "c", "P", "K", "x01", "x02", "x14", "x03",
    "x14", "x00", "x00", "x00", "x00", "x00", "x00", "x00", "x21", "x00",
    "x86", "x19", "x1b", "x5c", "x03", "x00", "x00", "x00", "x03", "x00",
    "x00", "x00", "x05", "x00", "x00", "x00", "x00", "x00", "x00", "x00",
    "x00", "x00", "x00", "x00", "x80", "x01", "x00", "x00", "x00", "x00",
    "d", ".", "c", "s", "v", "P", "K", "x05", "x06", "x00", "x00", "x00",
    "x00", "x01", "x00", "x01", "x00", "3", "x00", "x00", "x00", "x26",
    "x00", "x00", "x00", "x00", "x00">>

\* the data of Z_domain under the name d.c
Z_otherName ==
  <<"P", "K", "x03", "x04", "x14", "x00", "x00", "x00", "x00", "x00", "x00",
    "x00", "x21", "x00", "x8b", "xbf", "xfb", "x17", "x0b", "x00", "x00",
    "x00", "x0b", "x00", "x00", "x00", "x03", "x00", "x00", "x00", "d", ".",
    "c", "b", ";", "c", "\n", "1", ";", "a", ".", "b", ".", "c", "P", "K",
    "x01", "x02", "x14", "x03", "x14", "x00", "x00", "x00", "x00", "x00",
    "x00", "x00", "x21", "x00", "x8b", "xbf", "xfb", "x17", "x0b", "x00",
    "x00", "x00", "x0b", "x00", "x00", "x00", "x03", "x00", "x00", "x00",
    "x00", "x00", "x00", "x00", "x00", "x00", "x00", "x00", "x80", "x01",
    "x00", "x00", "x00", "x00", "d", ".", "c", "P", "K", "x05", "x06",
    "x00", "x00", "x00", "x00", "x01", "x00", "x01", "x00", "1", "x00",
    "x00", "x00", ",", "x00", "x00", "x00", "x00", "x00">>

\* Z_domain with the method 1 in both headers
Z_method1 ==
  [Z_domain EXCEPT ![9] = "x01", ![57] = "x01"]

\* Z_domain with another CRC-32 in both headers
Z_badCRC ==
  [Z_domain EXCEPT ![18] = "x18", ![66] = "x18"]

\* Z_domain with the CRC-32 0 in both headers
Z_noCRC ==
  [Z_domain EXCEPT ![15] = "x00", ![16] = "x00", ![17] = "x00", ![18] = "x00", ![63] = "x00", ![64] = "x00", ![65] = "x00", ![66] = "x00"]

\* d.csv = "b;c\n7; *.b.c||1.2.3.4\n1;a.b.c" deflated: one block of the
\* fixed code with copies
Z_deflated ==
  <<"P", "K", "x03", "x04", "x14", "x00", "x00", "x00", "x08", "x00", "x00",
    "x00", "x21", "x00", ";", "xff", "x67", "xf2", "x1d", "x00", "x00",
    "x00", "x1d", "x00", "x00", "x00", "x05", "x00", "x00", "x00", "d", ".",
    "c", "s", "v", "K", "xb2", "x4e", "xe6", "2", "xb7", "V", "xd0", "xd2",
    "K", "xd2", "K", "xae", "xa9", "1", "xd4", "3", "xd2", "3", "xd6", "3",
    "xe1", "2", "xb4", "x4e", "x04", "x09", "x00", "x00", "P", "K", "x01",
    "x02", "x14", "x03", "x14", "x00", "x00", "x00", "x08", "x00", "x00",
    "x00", "x21", "x00", ";", "xff", "x67", "xf2", "x1d", "x00", "x00",
    "x00", "x1d", "x00", "x00", "x00", "x05", "x00", "x00", "x00", "x00",
    "x00", "x00", "x00", "x00", "x00", "x00", "x00", "x80", "x01", "x00",
    "x00", "x00", "x00", "d", ".", "c", "s", "v", "P", "K", "x05", "x06",
    "x00", "x00", "x00", "x00", "x01", "x00", "x01", "x00", "3", "x00",
    "x00", "x00", "x40", "x00", "x00", "x00", "x00", "x00">>

\* d.csv = "b;c\n1;a.b.c\n3;f.c|1.2.3.5\n1;d.c\n6;b..c\n1;d.c\n1;d.c"
\* deflated: one block with codes of its own and copies; the local header
\* leaves the sizes and the CRC-32 to the data descriptor behind the
\* stream
Z_descriptor ==
  <<"P", "K", "x03", "x04", "x14", "x00", "x08", "x00", "x08", "x00", "x00",
    "x00", "x21", "x00", "x00", "x00", "x00", "x00", "x00", "x00", "x00",
    "x00", "x00", "x00", "x00", "x00", "x05", "x00", "x00", "x00", "d", ".",
    "c", "s", "v", "-", "xc7", "xb1", "x0d", "x00", " ", "x0c", "x03", "xc1",
    "x3e", "xc3", "xbc", "x14", "x10", "4", "x9e", "x86", "x18", "1", "x05",
    "xc3", "xd3", "p", "xdd", "x95", "x1c", "xa9", "x45", "xe1", "xe8", ":",
    "xf8", "x26", "x8d", "xce", "x88", "xd4", "xc6", "1", "x55", "xe0",
    "x9f", "xd4", "xc6", "x0f", "P", "K", "x07", "x08", "x1e", "xa9", "x14",
    "xa7", "-", "x00", "x00", "x00", "2", "x00", "x00", "x00", "P", "K",
    "x01", "x02", "x14", "x00", "x14", "x00", "x08", "x00", "x08", "x00",
    "x00", "x00", "x21", "x00", "x1e", "xa9", "x14", "xa7", "-", "x00",
    "x00", "x00", "2", "x00", "x00", "x00", "x05", "x00", "x00", "x00",
    "x00", "x00", "x00", "x00", "x00", "x00", "x00", "x00", "x00", "x00",
    "x00", "x00", "x00", "x00", "d", ".", "c", "s", "v", "P", "K", "x05",
    "x06", "x00", "x00", "x00", "x00", "x01", "x00", "x01", "x00", "3",
    "x00", "x00", "x00", "x60", "x00", "x00", "x00", "x00", "x00">>

\* d.csv = "b;c\n1;a.b.c" as a DEFLATE stream of one stored block
Z_level0 ==
  <<"P", "K", "x03", "x04", "x14", "x00", "x00", "x00", "x08", "x00", "x00",
    "x00", "x21", "x00", "x8b", "xbf", "xfb", "x17", "x10", "x00", "x00",
    "x00", "x0b", "x00", "x00", "x00", "x05", "x00", "x00", "x00", "d", ".",
    "c", "s", "v", "x01", "x0b", "x00", "xf4", "xff", "b", ";", "c", "\n",
    "1", ";", "a", ".", "b", ".", "c", "P", "K", "x01", "x02", "x14", "x03",
    "x14", "x00", "x00", "x00", "x08", "x00", "x00", "x00", "x21", "x00",
    "x8b", "xbf", "xfb", "x17", "x10", "x00", "x00", "x00", "x0b", "x00",
    "x00", "x00", "x05", "x00", "x00", "x00", "x00", "x00", "x00", "x00",
    "x00", "x00", "x00", "x00", "x80", "x01", "x00", "x00", "x00", "x00",
    "d", ".", "c", "s", "v", "P", "K", "x05", "x06", "x00", "x00", "x00",
    "x00", "x01", "x00", "x01", "x00", "3", "x00", "x00", "x00", "3", "x00",
    "x00", "x00", "x00", "x00">>

\* Z_deflated with the block type 3 in its stream
Z_blockType3 ==
  [Z_deflated EXCEPT ![36] = "x4f"]

\* the archives given to Parse: the empty archive behind a local file
\* signature and before a zero byte; archives of one and of two members;
\* a header alone; a member with a wrong CRC-32, with none, under another
\* name, of an unknown method; an archive behind 22 other bytes, and one
\* that lacks its last byte; deflated members with the fixed code, with a
\* code of their own and a data descriptor, with a stored block, and with
\* a block of no type
ZipArchives ==
  {<<"P", "K", "x03", "x04">> \o T_zipEmpty,
   T_zipEmpty \o <<"x00">>,
   Z_domain, Z_two, Z_header, Z_badCRC, Z_noCRC, Z_otherName, Z_method1,
   T_zipEmpty \o Z_domain,
   SubSeq(Z_domain, 1, Len(Z_domain) - 1),
   Z_deflated, Z_descriptor, Z_level0, Z_blockType3}

\* the texts given to the parser: nothing, less than four bytes, a text
\* without separator, the ZIP data, the long text, and a header followed by
\* up to MaxRows data lines
CSVTexts ==
  {<<>>, <<"b", ";">>, S_abc, T_zipBad, T_zipEmpty, T_long}
    \cup {JoinLines(<<L_header>> \o rows) : rows \in SeqsUpTo(DataLines, MaxRows)}

\* the tokens given to categorizeEntry
Tokens ==
  {S_abc, S_Bc, S_bcBad, S_star \o S_bc, S_star \o S_bcBad, S_star \o S_dc \o S_path,
   S_ip, S_ip \o <<":", "8", "0">>, <<":", ":", "1">>, S_dc \o S_path, S_path,
   <<"h", "t", "t", "p", ":", "/", "/">> \o S_abc,
   <<"f", "t", "p", ":", "/", "/">> \o S_ip,
   <<"b", ".", ".", "c">>, <<"-", "c">>, <<"2", "5", "6", ".", "0", ".", "0", ".", "0">>}

\* Parse, parseCSVText and categorizeEntry, tabulated once for the inputs
ParseTable == [data \in CSVTexts \cup ZipArchives |-> Parse(data)]

ParseCSVTextTable == [text \in CSVTexts |-> parseCSVText(text)]

CategorizeTable == [token \in Tokens |-> categorizeEntry(token)]

ParserFrame ==
  UNCHANGED <<storeVars, seqVars, concVars, sched, cfg, client, source,
              srcCalls, ch, loops, ctl, panicked, clock>>

\* a call of Parse on the input
CallParse ==
  /\ lastCall.op = "input"
  /\ lastCall.data \in CSVTexts \cup ZipArchives
  /\ lastCall' = [op |-> "Parse", data |-> lastCall.data,
                  ret |-> ParseTable[lastCall.data]]
  /\ ParserFrame

\* a call of parseCSVText on the input
CallParseCSVText ==
  /\ lastCall.op = "input"
  /\ lastCall.data \in CSVTexts
  /\ lastCall' = [op |-> "parseCSVText", data |-> lastCall.data,
                  ret |-> ParseCSVTextTable[lastCall.data]]
  /\ ParserFrame

\* a call of categorizeEntry on the input, the registry being empty
CallCategorizeEntry ==
  /\ lastCall.op = "input"
  /\ lastCall.data \in Tokens
  /\ lastCall' = [op |-> "categorizeEntry", token |-> lastCall.data,
                  ret |-> CategorizeTable[lastCall.data]]
  /\ ParserFrame

\* the store and the scheduler as constructed, and an input of the parser
InitParser ==
  /\ InitStore
  /\ InitOfficialSource
  /\ sched = [running |-> FALSE, lastUpdate |-> 0, lastError |-> NilError,
              consecutiveFailures |-> 0, totalUpdates |-> 0,
              successfulUpdates |-> 0]
  /\ cfg = TestConfig
  /\ client = OfficialClient
  /\ ch = [stopCh |-> "open", doneCh |-> "open", triggerCh |-> 0]
  /\ loops = <<>>
  /\ ctl = [c \in Controllers |-> "idle"]
  /\ panicked = "none"
  /\ clock = 1
  /\ \E data \in CSVTexts \cup ZipArchives \cup Tokens :
       lastCall = [op |-> "input", data |-> data]

NextParser ==
  \/ CallParse
  \/ CallParseCSVText
  \/ CallCategorizeEntry

SpecParser == InitParser /\ [][NextParser]_vars

\* ------------------------------------------------------------------------
\* Normalize applied to raw URLs and then to its own result
\* ------------------------------------------------------------------------

S_www == <<"w", "w", "w", ".">>

\* the hosts the raw URLs are written with: names, names under "www.",
\* IPv4 and IPv6 addresses, hosts in brackets, and hosts Normalize refuses
\* (a name or an IPv4 address in brackets, a name that ends in two dots)
RawHosts ==
  {S_abc, S_Bc, S_bcBad, S_bc \o <<".">>, S_www \o S_bc, S_www \o S_www \o S_bc,
   S_www \o <<"c">>, S_ip, <<"0", "1", ".", "2", ".", "3", ".", "4">>,
   <<":", ":", "1">>, <<":", ":", "f", "f", "f", "f", ":">> \o S_ip,
   <<"1", ":", ":", "0", ":", "B">>,
   <<"1", ":", "2", ":", "3", ":", "4", ":", "5", ":", "6", ":", "7", ":", ":">>,
   <<":", ":", "1", ":", "2", ":", "3", ":", "4", ":", "5", ":", "6", ":", "7">>,
   <<"[", ":", ":", "1", "]">>, <<"[", ":", ":", "1">>,
   <<"[", "2", "0", "0", "1", ":", "d", "b", "8", ":", ":", "1", "]">>,
   <<"[", "1", ":", "2", ":", "3", ":", "4", ":", "5", ":", "6", ":", "7", ":",
     "8", "]">>,
   <<"[">> \o S_bc \o <<"]">>, <<"[">> \o S_ip \o <<"]">>,
   <<"[", ":", ":", "f", "f", "f", "f", ":">> \o S_ip \o <<"]">>,
   S_bc \o <<".", ".">>}

\* what stands before and after the host in a raw URL
RawPrefixes == {<<>>, HttpPrefix, <<" ">>}

RawSuffixes == {<<>>, <<":", "8", "0">>, S_path, <<":", "8", "0">> \o S_path}

RawURLs ==
  {<<>>} \cup {pre \o host \o suf :
                 pre \in RawPrefixes, host \in RawHosts, suf \in RawSuffixes}

\* Normalize, tabulated once for the raw URLs
NormalizeTable == [rawURL \in RawURLs |-> Normalize(rawURL)]

\* a call of Normalize on the raw URL
CallNormalize ==
  /\ lastCall.op = "input"
  /\ lastCall.data \in RawURLs
  /\ lastCall' = [op |-> "Normalize", rawURL |-> lastCall.data,
                  ret |-> NormalizeTable[lastCall.data]]
  /\ ParserFrame

\* a call of Normalize on the key the call before returned
CallNormalizeAgain ==
  /\ lastCall.op = "Normalize"
  /\ lastCall.ret.err = "nil"
  /\ lastCall' = [op |-> "NormalizeAgain", rawURL |-> lastCall.ret.key,
                  first |-> lastCall.rawURL, ret |-> Normalize(lastCall.ret.key)]
  /\ ParserFrame

InitNormalize ==
  /\ InitStore
  /\ InitOfficialSource
  /\ sched = [running |-> FALSE, lastUpdate |-> 0, lastError |-> NilError,
              consecutiveFailures |-> 0, totalUpdates |-> 0,
              successfulUpdates |-> 0]
  /\ cfg = TestConfig
  /\ client = OfficialClient
  /\ ch = [stopCh |-> "open", doneCh |-> "open", triggerCh |-> 0]
  /\ loops = <<>>
  /\ ctl = [c \in Controllers |-> "idle"]
  /\ panicked = "none"
  /\ clock = 1
  /\ \E rawURL \in RawURLs : lastCall = [op |-> "input", data |-> rawURL]

NextNormalize ==
  \/ CallNormalize
  \/ CallNormalizeAgain

SpecNormalize == InitNormalize /\ [][NextNormalize]_vars

\* ------------------------------------------------------------------------
\* The radix tree on its own: keys inserted in any order, then looked up
\* ------------------------------------------------------------------------

MaxKeys == 3

S_b == <<"b">>
S_bcd == <<"b", ".", "c", "d">>
S_ab == <<"a", ".", "b">>
S_bd == <<"b", ".", "d">>

\* the non-empty keys inserted: prefixes, extensions and siblings of one another
RadixKeys == {S_bc, S_abc, S_b, S_bcd, S_ab, S_bd}

\* the keys looked up: the inserted ones, mere prefixes and extensions
RadixProbes ==
  RadixKeys \cup {S_dabc, S_dbc, S_dc, <<"b", ".">>, <<"a">>,
                  <<"d", ".", "b", ".", "c", "d">>,
                  <<"b", ".", "c", ".">>, <<>>}

RadixOrders == SeqsUpTo(RadixKeys, MaxKeys)

RadixFrame ==
  UNCHANGED <<domains, ips, urlPatterns, bloom, lastUpdate, entryCount,
              version, seqVars, concVars, sched, cfg, client, source,
              srcCalls, ch, loops, ctl, panicked, clock>>

\* rt.Insert(key, key) of the next key of the order
CallRadixInsert ==
  /\ lastCall.todo # <<>>
  /\ wildcards' = RadixInsert(wildcards, Head(lastCall.todo), Head(lastCall.todo))
  /\ lastCall' = [op |-> "Insert", key |-> Head(lastCall.todo),
                  ret |-> Nil, todo |-> Tail(lastCall.todo),
                  keys |-> lastCall.keys \cup {Head(lastCall.todo)}]
  /\ RadixFrame

\* rt.Search(key)
CallRadixSearch ==
  /\ \E key \in RadixProbes :
       lastCall' = [op |-> "Search", key |-> key,
                    ret |-> RadixSearch(wildcards, key),
                    todo |-> lastCall.todo, keys |-> lastCall.keys]
  /\ UNCHANGED wildcards
  /\ RadixFrame

\* rt.MatchesWildcard(domain)
CallMatchesWildcard ==
  /\ \E domain \in RadixProbes :
       lastCall' = [op |-> "MatchesWildcard", key |-> domain,
                    ret |-> MatchesWildcard(wildcards, domain),
                    todo |-> lastCall.todo, keys |-> lastCall.keys]
  /\ UNCHANGED wildcards
  /\ RadixFrame

InitRadix ==
  /\ InitStore
  /\ InitOfficialSource
  /\ sched = [running |-> FALSE, lastUpdate |-> 0, lastError |-> NilError,
              consecutiveFailures |-> 0, totalUpdates |-> 0,
              successfulUpdates |-> 0]
  /\ cfg = TestConfig
  /\ client = OfficialClient
  /\ ch = [stopCh |-> "open", doneCh |-> "open", triggerCh |-> 0]
  /\ loops = <<>>
  /\ ctl = [c \in Controllers |-> "idle"]
  /\ panicked = "none"
  /\ clock = 1
  /\ \E order \in RadixOrders :
       lastCall = [op |-> "input", key |-> <<>>, ret |-> Nil,
                   todo |-> order, keys |-> {}]

NextRadix ==
  \/ CallRadixInsert
  \/ CallRadixSearch
  \/ CallMatchesWildcard

SpecRadix == InitRadix /\ [][NextRadix]_vars

\* ------------------------------------------------------------------------
\* Lookups of keys that several rule families of one registry match
\* ------------------------------------------------------------------------

MaxOrderEntries == 2

S_34 == <<"3", ".", "4">>

O_SNI == Entry(BlockingTypeSNI, S_abc, <<>>, <<>>)
O_DomainIP == Entry(BlockingTypeDomain, S_ip, <<>>, <<>>)
O_Wild34 == Entry(BlockingTypeWildcard, S_star \o S_34, <<>>, <<>>)
O_URLabc == Entry(BlockingTypeURLPath, <<>>, <<>>, S_abc \o S_path)
O_URLip == Entry(BlockingTypeURLPath, <<>>, <<>>, S_ip \o S_path)

\* entries of the four families that match the keys a.b.c and 1.2.3.4
OrderPool ==
  {E_Domain, O_SNI, O_DomainIP, E_IP, E_WildBC, O_Wild34, O_URLabc, O_URLip}

OrderRegistries ==
  {[Entries |-> es, Version |-> "v1"] : es \in SeqsUpTo(OrderPool, MaxOrderEntries)}

OrderKeys == {S_abc, S_ip}

\* Update of the registry drawn at the start
CallUpdateInput ==
  /\ lastOp.op = "NewMemoryStore"
  /\ Update(lastCall.data, 1)

\* IsBlocked of one of the keys
CallIsBlockedKey ==
  \E key \in OrderKeys : IsBlocked(key)

InitOrder ==
  /\ InitStore
  /\ InitOfficialSource
  /\ sched = [running |-> FALSE, lastUpdate |-> 0, lastError |-> NilError,
              consecutiveFailures |-> 0, totalUpdates |-> 0,
              successfulUpdates |-> 0]
  /\ cfg = TestConfig
  /\ client = OfficialClient
  /\ ch = [stopCh |-> "open", doneCh |-> "open", triggerCh |-> 0]
  /\ loops = <<>>
  /\ ctl = [c \in Controllers |-> "idle"]
  /\ panicked = "none"
  /\ clock = 1
  /\ \E registry \in OrderRegistries :
       lastCall = [op |-> "input", data |-> registry]

NextOrder ==
  \/ CallUpdateInput
  \/ CallIsBlockedKey

SpecOrder == InitOrder /\ [][NextOrder]_vars

\* ------------------------------------------------------------------------
\* Vocabulary of the properties
\* ------------------------------------------------------------------------

\* the rule of entry e can be built
RuleValid(e) == ToBlockingRule(e).err = "nil"

\* the base domain X of a wildcard entry '*.X'
WildcardBase(e) == TrimPrefix(e.Domain, S_star)

\* X is the join of the labels of k from some index >= 1 on
IsProperSubdomain(k, X) ==
  LET parts == SplitDot(k) IN
    \E i \in 2..Len(parts) : JoinDot(SubSeq(parts, i, Len(parts))) = X

Range(f) == {f[x] : x \in DOMAIN f}

\* the entries of the registry the store was last updated from
CurrentEntries == Range(current.registry.Entries)

\* the keys stored in the subtree of node, prefix being the path to it
RECURSIVE nodeKeys(_, _)
nodeKeys(node, prefix) ==
  LET here == prefix \o node.key IN
    (IF node.isEnd THEN {here} ELSE {})
      \cup UNION {nodeKeys(node.children[c], here) : c \in DOMAIN node.children}

TreeKeys(rt) == nodeKeys(rt.root, <<>>)

\* every key the index holds
StoredKeys ==
  DOMAIN domains \cup DOMAIN ips \cup DOMAIN urlPatterns \cup TreeKeys(wildcards)

\* an exact Domain/SNI or IP entry of the registry matches k
ExactEntryFor(k) ==
  \E e \in CurrentEntries :
    /\ RuleValid(e)
    /\ \/ e.Type \in {BlockingTypeDomain, BlockingTypeSNI} /\ e.Domain = k
       \/ e.Type = BlockingTypeIP /\ e.IP = k

\* a URLPath entry of the registry has host k
URLPathEntryFor(k) ==
  \E e \in CurrentEntries :
    RuleValid(e) /\ e.Type = BlockingTypeURLPath
      /\ extractDomainFromURL(e.URL) = k

\* a wildcard entry '*.X' of the registry has k as a proper subdomain of X
WildcardEntryOver(k) ==
  \E e \in CurrentEntries :
    /\ RuleValid(e) /\ e.Type = BlockingTypeWildcard
    /\ IsProperSubdomain(k, WildcardBase(e))

\* a wildcard entry '*.X' of the registry has X = k
WildcardEntryAt(k) ==
  \E e \in CurrentEntries :
    /\ RuleValid(e) /\ e.Type = BlockingTypeWildcard
    /\ HasPrefix(e.Domain, S_star) /\ WildcardBase(e) = k

\* IsBlocked has just answered on a store last written by Update(R), R # nil
LookupAfterUpdate == lastOp.op = "IsBlocked" /\ current.kind = "updated"

\* ------------------------------------------------------------------------
\* C1
\* ------------------------------------------------------------------------

\* s is the initial store, the store built by one Update(R), or a cleared one
IsCompleteSnapshot(s) ==
  \/ s = NewSnapshot(DefaultBloomN)
  \/ \E registry \in ConcRegistries : s = BuildSnapshot(registry)
  \/ /\ s.domains = <<>> /\ s.ips = <<>> /\ s.urlPatterns = <<>>
     /\ s.wildcards = NewRadixTree /\ s.bloom.bits = {}

\* C1: under every interleaving of concurrent IsBlocked, Update and Clear
\* calls, each IsBlocked result is the result of the lookup on one complete
\* snapshot: the one the store held when the read lock was taken, which is
\* the initial store, the store built by a single Update, or a cleared store.
C1_LookupSeesOneSnapshot ==
  /\ \A s \in installed : IsCompleteSnapshot(s)
  /\ \A t \in Goroutines :
       (g[t].op = "IsBlocked" /\ g[t].pc \in {"runlock", "returned"}) =>
         /\ \E s \in installed : g[t].ret = IsBlockedOn(s, g[t].arg)
         /\ g[t].seen # Nil =>
              g[t].seen \in installed /\ g[t].ret = IsBlockedOn(g[t].seen, g[t].arg)

\* a lookup has found a rule while another goroutine waits to swap in the
\* registry it has built, after two updates and a clear were installed
W_C1 ==
  \E t, u \in Goroutines :
    /\ g[t].op = "IsBlocked" /\ g[t].pc = "runlock" /\ g[t].ret.IsBlocked
    /\ g[u].op = "Update" /\ g[u].pc = "lock"
    /\ g[u].new # g[t].seen
    /\ Cardinality(installed) >= 4

\* ------------------------------------------------------------------------
\* C2
\* ------------------------------------------------------------------------

\* C2: after Update(R) with a Wildcard entry '*.X' in R, IsBlocked(k) is
\* blocked with reason Wildcard for every proper subdomain k of X that no
\* exact Domain or IP entry matches.
C2_WildcardBlocksSubdomains ==
  (LookupAfterUpdate /\ WildcardEntryOver(lastOp.key) /\ ~ExactEntryFor(lastOp.key))
    => (lastOp.result.IsBlocked /\ lastOp.result.Reason = BlockingTypeWildcard)

\* ------------------------------------------------------------------------
\* C3
\* ------------------------------------------------------------------------

\* C3: after Update(R), IsBlocked(k) is blocked if and only if some rule of
\* R matches k: an exact Domain/SNI or IP entry, a wildcard over a proper
\* suffix of k, or a URLPath entry whose host is k.
C3_BlockedIffSomeRuleMatches ==
  LookupAfterUpdate =>
    (lastOp.result.IsBlocked <=>
       (lastOp.key # <<>> /\ (\/ ExactEntryFor(lastOp.key)
                              \/ WildcardEntryOver(lastOp.key)
                              \/ URLPathEntryFor(lastOp.key))))

\* ------------------------------------------------------------------------
\* C4
\* ------------------------------------------------------------------------

\* C4: in every state of the store, a key that bloom.Contains rejects is
\* reported not blocked, and so is the empty key.
C4_BloomNegativeMeansNotBlocked ==
  lastOp.op = "IsBlocked" =>
    /\ lastOp.key = <<>> => ~lastOp.result.IsBlocked
    /\ ~BloomContains(bloom, lastOp.key) => ~lastOp.result.IsBlocked

\* a lookup was rejected by the filter although the wildcard tree matches
W_C4 ==
  /\ lastOp.op = "IsBlocked" /\ lastOp.key # <<>>
  /\ ~BloomContains(bloom, lastOp.key)
  /\ MatchesWildcard(wildcards, lastOp.key).exists
  /\ ~lastOp.result.IsBlocked

\* ------------------------------------------------------------------------
\* C5
\* ------------------------------------------------------------------------

\* C5: after any sequence of Update and Clear calls, every key held by
\* domains, ips, urlPatterns or the wildcard tree passes bloom.Contains.
C5_StoredKeysPassBloom == \A k \in StoredKeys : BloomContains(bloom, k)

\* the store holds keys in three of its structures, the tree among them
W_C5 ==
  /\ current.kind = "updated"
  /\ TreeKeys(wildcards) # {}
  /\ Cardinality(StoredKeys) >= 2
  /\ DOMAIN domains \cup DOMAIN ips \cup DOMAIN urlPatterns # {}

\* ------------------------------------------------------------------------
\* C6
\* ------------------------------------------------------------------------

\* C6: after Update(R) with a URLPath entry 'H/path' in R, IsBlocked(H) is
\* blocked and carries that URLPath rule, when no earlier lookup step
\* matches H.
C6_URLPathHostBlocked ==
  (/\ LookupAfterUpdate
   /\ lastOp.key # <<>>
   /\ URLPathEntryFor(lastOp.key)
   /\ ~ExactEntryFor(lastOp.key)
   /\ ~WildcardEntryOver(lastOp.key))
    => (/\ lastOp.result.IsBlocked
        /\ lastOp.result.Reason = BlockingTypeURLPath
        /\ extractDomainFromURL(lastOp.result.Rule.Pattern) = lastOp.key)

\* ------------------------------------------------------------------------
\* C7
\* ------------------------------------------------------------------------

\* C7 as stated: after Update(R) where R holds '*.X' and no Domain, IP or
\* URLPath entry for X, IsBlocked(X) is not blocked.
C7_Original ==
  (/\ LookupAfterUpdate
   /\ WildcardEntryAt(lastOp.key)
   /\ ~ExactEntryFor(lastOp.key)
   /\ ~URLPathEntryFor(lastOp.key))
    => ~lastOp.result.IsBlocked

\* C7 amended: after Update(R) where R holds '*.X', no Domain, SNI, IP or
\* URLPath entry for X, and no other Wildcard entry '*.Y' with X a proper
\* subdomain of Y, IsBlocked(X) is not blocked.
C7_WildcardDoesNotBlockBase ==
  (/\ LookupAfterUpdate
   /\ WildcardEntryAt(lastOp.key)
   /\ ~ExactEntryFor(lastOp.key)
   /\ ~URLPathEntryFor(lastOp.key)
   /\ ~WildcardEntryOver(lastOp.key))
    => ~lastOp.result.IsBlocked

\* the base X of a stored '*.X' was looked up, passed the bloom filter and
\* was found in no structure
W_C7 ==
  /\ LookupAfterUpdate
  /\ WildcardEntryAt(lastOp.key)
  /\ ~ExactEntryFor(lastOp.key) /\ ~WildcardEntryOver(lastOp.key)
  /\ BloomContains(bloom, lastOp.key)
  /\ RadixSearch(wildcards, lastOp.key).exists
  /\ ~lastOp.result.IsBlocked

\* ------------------------------------------------------------------------
\* C8
\* ------------------------------------------------------------------------

\* C8: every key Update stores in the index is a fixed point of Normalize.
C8_StoredKeysCanonical ==
  \A k \in StoredKeys : Normalize(k) = [key |-> k, err |-> "nil"]

\* ------------------------------------------------------------------------
\* C9
\* ------------------------------------------------------------------------

\* C9: Update(nil) returns the invalid-registry error and changes no part
\* of the store.
C9_UpdateNilChangesNothing ==
  [][(lastOp'.op = "Update" /\ lastOp'.nilRegistry) =>
       (lastOp'.err = "ErrRegistryEntryInvalid" /\ UNCHANGED storeVars)]_vars

\* Update(nil) has returned its error on a store that holds a registry
W_C9 ==
  /\ lastOp.op = "Update" /\ lastOp.nilRegistry
  /\ lastOp.err = "ErrRegistryEntryInvalid"
  /\ current.kind = "updated" /\ StoredKeys # {} /\ entryCount > 0
  /\ version = "v1" /\ lastUpdate = 1

\* ------------------------------------------------------------------------
\* C10
\* ------------------------------------------------------------------------

\* the keys the valid entries of the registry ask for, by structure
WantedDomains ==
  {e.Domain : e \in {x \in CurrentEntries :
     RuleValid(x) /\ x.Type \in {BlockingTypeDomain, BlockingTypeSNI}}}

WantedIPs ==
  {e.IP : e \in {x \in CurrentEntries : RuleValid(x) /\ x.Type = BlockingTypeIP}}

WantedWildcards ==
  {WildcardBase(e) : e \in {x \in CurrentEntries :
     RuleValid(x) /\ x.Type = BlockingTypeWildcard}}

ValidURLPathEntries ==
  {x \in CurrentEntries : RuleValid(x) /\ x.Type = BlockingTypeURLPath}

\* entry e of type URLPath is held by urlPatterns under its host
URLPathIndexed(e) ==
  LET h == extractDomainFromURL(e.URL) IN
    /\ h \in DOMAIN urlPatterns
    /\ ToBlockingRule(e).rule \in Range(urlPatterns[h])

\* Update(R), R # nil, has just returned
UpdateReturned ==
  lastOp.op = "Update" /\ ~lastOp.nilRegistry /\ current.kind = "updated"

\* the three exact structures hold the keys of the valid entries and no other
ExactStructuresIndexed ==
  /\ DOMAIN domains = WantedDomains
  /\ \A k \in DOMAIN domains : domains[k].Pattern = k
  /\ DOMAIN ips = WantedIPs
  /\ TreeKeys(wildcards) = WantedWildcards

\* C10 as stated: Update(R), R # nil, returns nil, every entry whose rule is
\* valid is indexed and the entries whose rule construction fails are
\* skipped.
C10_Original ==
  UpdateReturned =>
    /\ lastOp.err = "nil"
    /\ ExactStructuresIndexed
    /\ \A e \in ValidURLPathEntries : URLPathIndexed(e)
    /\ DOMAIN urlPatterns = {extractDomainFromURL(e.URL) : e \in ValidURLPathEntries}

\* C10 amended: Update(R), R # nil, returns nil; every entry whose rule is
\* valid is indexed, except a URLPath entry from whose URL no host can be
\* extracted; such entries and the entries whose rule construction fails
\* are skipped and the entries after them are still indexed.
C10_UpdateSkipsBadEntries ==
  UpdateReturned =>
    /\ lastOp.err = "nil"
    /\ ExactStructuresIndexed
    /\ \A e \in ValidURLPathEntries :
         extractDomainFromURL(e.URL) # <<>> => URLPathIndexed(e)
    /\ DOMAIN urlPatterns =
         {extractDomainFromURL(e.URL) : e \in ValidURLPathEntries} \ {<<>>}

\* Update returned nil for a registry whose first entry has no valid rule
\* and whose second entry is indexed
W_C10 ==
  /\ UpdateReturned /\ lastOp.err = "nil"
  /\ Len(current.registry.Entries) = 2
  /\ ~RuleValid(current.registry.Entries[1])
  /\ RuleValid(current.registry.Entries[2])
  /\ StoredKeys # {}

\* ------------------------------------------------------------------------
\* Claims about the scheduler
\* ------------------------------------------------------------------------

\* the loops whose performUpdate has ended in failure
FailedUpdate(i) == loops[i].outcome = "failure"

\* C11: when a performUpdate has ended in failure, whether its attempts
\* failed at the fetch, at the non-empty check or at store.Update, the
\* lookup structures of the store are the ones it found when it began.
C11_FailedUpdateKeepsStore ==
  \A i \in DOMAIN loops : FailedUpdate(i) => Live = loops[i].before

\* a performUpdate has failed after two attempts on a store that an
\* earlier update had loaded
W_C11 ==
  \E i \in DOMAIN loops :
    /\ FailedUpdate(i)
    /\ loops[i].calls = 2
    /\ current.kind = "updated"
    /\ StoredKeys # {}

\* C12: under every interleaving of Start, Stop, TriggerUpdate, ticks and
\* cancellations, at most one performUpdate of the scheduler is in progress.
C12_OneUpdateAtATime ==
  Cardinality({i \in DOMAIN loops : InPerformUpdate(i)}) <= 1

\* a second run goroutine is inside performUpdate while the first one has
\* not yet closed doneCh
W_C12 ==
  \E i, j \in DOMAIN loops :
    i # j /\ loops[i].pc = "closeDone" /\ InPerformUpdate(j)

\* C13: a Stop called on a running scheduler does not interrupt the update
\* in flight and does not fail: neither it nor the run goroutine it stops
\* panics, and when it returns every run goroutine has left its loop, with
\* its last performUpdate, and running is false.
C13_StopWaitsAndReturns ==
  /\ panicked = "none"
  /\ (lastCall.op = "Stop" /\ lastCall.err = "nil") =>
       /\ ~sched.running
       /\ \A i \in DOMAIN loops : loops[i].pc = "exited"

\* C14: a Start on a running scheduler returns the error "already running"
\* and spawns no run goroutine; a Stop on a scheduler that is not running
\* returns the error "not running" at once, and closes no channel.
C14_WrongStateRejected ==
  [][\A c \in Controllers :
       /\ (Start(c) /\ sched.running) =>
            /\ lastCall' = [op |-> "Start", err |-> "scheduler is already running"]
            /\ loops' = loops /\ sched' = sched /\ ch' = ch
       /\ (Stop(c) /\ ~sched.running) =>
            /\ lastCall' = [op |-> "Stop", err |-> "scheduler is not running"]
            /\ ctl'[c] = "idle" /\ panicked' = "none"
            /\ loops' = loops /\ sched' = sched /\ ch' = ch]_vars

\* a Stop has been rejected on a scheduler whose run goroutine has exited
\* on the cancellation of its context, and stopCh is still open
W_C14 ==
  /\ lastCall = [op |-> "Stop", err |-> "scheduler is not running"]
  /\ Len(loops) = 1 /\ loops[1].pc = "exited"
  /\ ch.stopCh = "open"

\* the run goroutine i starts a triggered performUpdate in this step
TriggeredUpdateStarts(i) ==
  /\ i \in DOMAIN loops
  /\ loops[i].pc = "select"
  /\ loops'[i].pc = "perform"
  /\ loops'[i].cause = "trigger"

\* C15: TriggerUpdate returns at once whatever is pending, at most one
\* trigger is ever pending, and a triggered performUpdate consumes the one
\* pending trigger: the calls made before it is consumed cause one update.
C15_OnePendingTrigger ==
  /\ [](ch.triggerCh \in {0, 1})
  /\ [][/\ \A c \in Controllers :
            TriggerUpdate(c) =>
              /\ ch'.triggerCh = 1
              /\ ctl' = ctl /\ loops' = loops /\ sched' = sched
        /\ \A i \in LoopIds :
            TriggeredUpdateStarts(i) =>
              ch.triggerCh = 1 /\ ch'.triggerCh = 0]_vars

\* a triggered performUpdate is in progress, nothing is pending, and the
\* last TriggerUpdate before it was dropped because one was pending
W_C15 ==
  /\ \E i \in DOMAIN loops : InPerformUpdate(i) /\ loops[i].cause = "trigger"
  /\ ch.triggerCh = 0
  /\ lastCall.op = "TriggerUpdate" /\ lastCall.err = "dropped"

\* the performUpdate of run goroutine i ends in this step with outcome how
EndsUpdate(i, how) ==
  /\ i \in DOMAIN loops /\ i \in DOMAIN loops'
  /\ loops[i].outcome # how
  /\ loops'[i].outcome = how

\* C16: successfulUpdates never exceeds totalUpdates; an update that ends
\* in success sets consecutiveFailures to 0, one that ends in failure adds
\* exactly 1 to it, and no other step changes it.
C16_CountersConsistent ==
  /\ [](sched.successfulUpdates <= sched.totalUpdates)
  /\ [][/\ \A i \in LoopIds :
            /\ EndsUpdate(i, "success") => sched'.consecutiveFailures = 0
            /\ EndsUpdate(i, "failure") =>
                 sched'.consecutiveFailures = sched.consecutiveFailures + 1
        /\ (\A i \in LoopIds :
              ~EndsUpdate(i, "success") /\ ~EndsUpdate(i, "failure")) =>
             sched'.consecutiveFailures = sched.consecutiveFailures]_vars

\* a third update has succeeded after two that failed
W_C16 ==
  /\ sched.totalUpdates = 3
  /\ sched.successfulUpdates = 1
  /\ sched.consecutiveFailures = 0
  /\ \E i \in DOMAIN loops : loops[i].outcome = "success"

\* C17: IsHealthy returns false exactly when consecutiveFailures >= 5, or
\* when lastUpdate is not the zero time and more than twice the interval
\* has elapsed since it; in every other state it returns true.
C17_HealthyIff ==
  (lastCall.op = "IsHealthy" /\ lastCall.at = clock) =>
    (lastCall.ret = FALSE <=>
       \/ sched.consecutiveFailures >= 5
       \/ sched.lastUpdate # 0 /\ clock - sched.lastUpdate > 2 * cfg.interval)

\* C18: a performUpdate calls FetchRegistry at most maxRetries times; once
\* an attempt has succeeded it has returned, with no failure recorded; and
\* when it has ended in failure it has recorded exactly one failure and
\* lastError is set, however many attempts it made.
C18_BoundedRetriesOneFailure ==
  \A i \in DOMAIN loops :
    /\ loops[i].calls <= cfg.maxRetries
    /\ loops[i].outcome = "running" => loops[i].recorded = 0
    /\ loops[i].outcome = "success" =>
         loops[i].pc = "select" /\ loops[i].recorded = 0
    /\ loops[i].outcome = "failure" =>
         /\ loops[i].pc = "select" /\ loops[i].recorded = 1
         /\ sched.lastError # NilError /\ sched.consecutiveFailures >= 1

\* a performUpdate with maxRetries 2 has failed on its second attempt and
\* one failure is recorded
W_C18 ==
  \E i \in DOMAIN loops :
    /\ loops[i].outcome = "failure"
    /\ cfg.maxRetries = 2 /\ loops[i].calls = 2
    /\ loops[i].recorded = 1 /\ sched.consecutiveFailures = 1

\* C19: store.Update is never invoked with a registry of size 0, and an
\* attempt whose fetched registry is empty is a failed attempt: the update
\* has not succeeded by it.
C19_EmptyRegistryNeverStored ==
  \A i \in DOMAIN loops :
    /\ loops[i].updateArg # Nil => Size(loops[i].updateArg) > 0
    /\ loops[i].fetched = "empty" => loops[i].outcome # "success"

\* the only attempt of a performUpdate fetched an empty registry: the
\* update has failed with that error and store.Update was not invoked
W_C19 ==
  \E i \in DOMAIN loops :
    /\ loops[i].fetched = "empty" /\ loops[i].calls = 1
    /\ loops[i].outcome = "failure"
    /\ sched.lastError = AllRetriesFailed("received empty registry")
    /\ loops[i].updateArg = Nil

\* the order the claim gives n sources when the source at position prev
\* succeeded most recently (0: none has)
StickyOrder(n, prev) ==
  LET NotPrev(k) == k # prev IN
  IF prev = 0 THEN Positions(n)
  ELSE <<prev>> \o SelectSeq(Positions(n), NotPrev)

IsPrefix(a, b) == Len(a) <= Len(b) /\ a = SubSeq(b, 1, Len(a))

\* C20: a FetchRegistry call contacts the sources in sticky-first order,
\* the source that succeeded most recently first and the others in their
\* configured order, all of them unless one succeeds or the context is
\* done; the registry it returns is that of the first source that
\* succeeded, whose name lastSuccessfulSource then holds.
C20_StickyFirstOrder ==
  lastCall.op = "FetchRegistry" =>
    \E expected \in {StickyOrder(Len(client.sources), lastCall.prev)} :
      /\ IsPrefix(lastCall.contacted, expected)
      /\ (lastCall.err # "nil"
            /\ ~lastCall.doneAtCall /\ lastCall.cancelAfter = 0) =>
           lastCall.contacted = expected
      /\ lastCall.err = "nil" =>
           /\ lastCall.source = lastCall.contacted[Len(lastCall.contacted)]
           /\ client.lastSuccessfulSource = client.sources[lastCall.source]

\* C21: in a FetchRegistry call, a source whose IsHealthy returned false is
\* health-checked once and never fetched, and unless the context is done
\* the next source in order is tried.
C21_UnhealthySourceSkipped ==
  lastCall.op = "FetchRegistry" =>
    \A k \in DOMAIN lastCall.contacted :
      lastCall.out[lastCall.contacted[k]] = "unhealthy" =>
        /\ lastCall.calls[lastCall.contacted[k]] = [health |-> 1, fetch |-> 0]
        /\ (k = Len(lastCall.contacted)
              /\ ~lastCall.doneAtCall /\ lastCall.cancelAfter = 0) =>
             lastCall.contacted = orderSources(client)

\* a FetchRegistry call has skipped an unhealthy first source and returned
\* the registry of the second
W_C21 ==
  /\ lastCall.op = "FetchRegistry"
  /\ Len(lastCall.contacted) = 2
  /\ lastCall.out[lastCall.contacted[1]] = "unhealthy"
  /\ lastCall.calls[lastCall.contacted[2]].fetch = 1
  /\ lastCall.err = "nil"

\* C22: a FetchRegistry call in which every source fails returns the
\* "all sources failed" error and adds one to consecutiveFailures; a call
\* that succeeds sets consecutiveFailures to zero.
C22_AllFailedCountsOnce ==
  lastCall.op = "FetchRegistry" =>
    /\ (\A k \in DOMAIN lastCall.contacted :
          lastCall.out[lastCall.contacted[k]] # "ok") =>
         /\ lastCall.err = "all sources failed"
         /\ client.consecutiveFailures = lastCall.failuresBefore + 1
    /\ lastCall.err = "nil" => client.consecutiveFailures = 0

\* both cases have happened in turn: a call that found every source failing
\* was followed by a call that succeeded, or the reverse
W_C22 ==
  /\ lastCall.op = "FetchRegistry"
  /\ lastCall.err = "nil"
  /\ lastCall.failuresBefore > 0
  /\ Len(lastCall.contacted) > 1
  /\ client.consecutiveFailures = 0

\* C23: once the context of a FetchRegistry call is done, the call
\* contacts no further source and returns an error: a call whose context is
\* already done contacts no source, and a call whose context becomes done
\* during the attempt on a source ends with that source; both return an
\* error.
C23_DoneContextContactsNothing ==
  lastCall.op = "FetchRegistry" =>
    /\ lastCall.doneAtCall =>
         /\ lastCall.contacted = <<>>
         /\ lastCall.err # "nil"
    /\ (~lastCall.doneAtCall
          /\ lastCall.cancelAfter \in DOMAIN lastCall.contacted) =>
         /\ Len(lastCall.contacted) = lastCall.cancelAfter
         /\ lastCall.err # "nil"

\* C24: a Fetch that returns has made at most MaxRetries attempts; when it
\* returns a body, that is the body of its first successful attempt, which
\* was its last, and the source is healthy with lastHealth the time of the
\* write; when all MaxRetries attempts have failed, the source is unhealthy
\* and the error is a SourceError of operation fetch whose cause is the
\* error of the last attempt.
C24_FetchRetries ==
  \A t \in DOMAIN srcCalls :
    (srcCalls[t].op = "Fetch" /\ srcCalls[t].pc = "return") =>
      /\ Len(srcCalls[t].tries) <= source.maxRetries
      /\ srcCalls[t].err = "nil" =>
           /\ srcCalls[t].tries # <<>>
           /\ \A k \in DOMAIN srcCalls[t].tries :
                (srcCalls[t].tries[k] = "ok") = (k = Len(srcCalls[t].tries))
           /\ srcCalls[t].ret = Len(srcCalls[t].tries)
           /\ source.healthy
           /\ source.lastHealth = srcCalls[t].stamp
           /\ srcCalls[t].stamp # ZeroTime
      /\ (srcCalls[t].err # "nil"
            /\ Len(srcCalls[t].tries) = source.maxRetries) =>
           /\ ~source.healthy
           /\ srcCalls[t].err = "SourceError fetch"
           /\ srcCalls[t].tries # <<>> =>
                srcCalls[t].cause = srcCalls[t].tries[Len(srcCalls[t].tries)]

\* a Fetch returns the body of its second attempt after the first failed
W_C24 ==
  \E t \in DOMAIN srcCalls :
    /\ srcCalls[t].op = "Fetch"
    /\ srcCalls[t].pc = "return"
    /\ srcCalls[t].tries = <<"empty data", "ok">>
    /\ srcCalls[t].ret = 2
    /\ source.healthy

\* the lastHealth that the IsHealthy of goroutine t read was less than five
\* minutes old when the call tested it
ReadFresh(t) ==
  CacheFresh([lastHealth |-> srcCalls[t].seenLast], srcCalls[t].at)

\* C25: an IsHealthy that returns without having sent a probe read a
\* lastHealth less than five minutes old and returns the flag it read; one
\* that sent a probe read a lastHealth five minutes old or more, or none,
\* and returns whether the probe answered 200.  A call goes on to probe
\* only when five minutes or more have elapsed since the lastHealth of the
\* source, or the source was never checked, and the write that follows a
\* probe stores whether it answered 200.
C25_HealthCache ==
  /\ [](\A t \in DOMAIN srcCalls :
         (srcCalls[t].op = "IsHealthy" /\ srcCalls[t].pc = "return") =>
           IF srcCalls[t].probe = "none"
           THEN /\ ReadFresh(t)
                /\ srcCalls[t].ret = srcCalls[t].seenHealthy
           ELSE /\ ~ReadFresh(t)
                /\ srcCalls[t].ret = (srcCalls[t].probe = "200"))
  /\ [][\A t \in DOMAIN srcCalls :
         (srcCalls[t].op = "IsHealthy" /\ srcCalls'[t] # srcCalls[t]) =>
           /\ (srcCalls[t].pc # "probe" /\ srcCalls'[t].pc = "probe") =>
                ~CacheFresh(source, clock)
           /\ (srcCalls[t].pc = "write_healthy"
                 /\ srcCalls[t].probe # "none") =>
                source'.healthy = (srcCalls[t].probe = "200")]_vars

\* C26: no goroutine is about to write healthy or lastHealth of the source
\* while another goroutine is about to read or write them: every such
\* access is made under a lock that excludes the other.
C26_HealthCacheExclusive ==
  \A a, b \in DOMAIN srcCalls :
    a # b => ~(/\ srcCalls[a].pc \in WritePcs
               /\ srcCalls[b].pc \in ReadPcs \cup WritePcs)

\* the entries the data rows from the i-th line on yield, each row taken on
\* its own
RECURSIVE ValidRowEntries(_, _)
ValidRowEntries(lines, i) ==
  IF i > Len(lines) THEN <<>>
  ELSE parseCSVRecord(csvFields(lines[i])).entries
         \o ValidRowEntries(lines, i + 1)

\* C27: parseCSVText of a text in which at least one data row yields an
\* entry succeeds and returns exactly the entries of the rows that yield
\* some, in order, whatever the other rows are.
C27_MalformedRowsSkipped ==
  lastCall.op = "parseCSVText" =>
    (ValidRowEntries(csvLines(lastCall.data), 2) # <<>> =>
       /\ lastCall.ret.err = "nil"
       /\ lastCall.ret.registry.Entries =
            ValidRowEntries(csvLines(lastCall.data), 2))

\* C28: Parse and parseCSVText return an error or a registry of at least
\* one entry, whether the data are a text or a ZIP archive; for an empty
\* text, a text of one line and a text no row of which yields an entry
\* they return an error.
C28_NoEmptyRegistry ==
  lastCall.op \in {"Parse", "parseCSVText"} =>
    /\ lastCall.ret.err = "nil" =>
         /\ lastCall.ret.registry # Nil
         /\ Len(lastCall.ret.registry.Entries) > 0
    /\ (/\ lastCall.data \notin ZipArchives
        /\ \/ lastCall.data = <<>>
           \/ Len(csvLines(lastCall.data)) <= 1
           \/ ValidRowEntries(csvLines(lastCall.data), 2) = <<>>) =>
         /\ lastCall.ret.err # "nil"
         /\ lastCall.ret.registry = Nil

\* Parse has refused a text of a header and two rows, none of which yields
\* an entry
W_C28 ==
  /\ lastCall.op = "Parse"
  /\ lastCall.data = JoinLines(<<L_header, L_noURL, L_bad>>)
  /\ lastCall.ret.err = "ParsingError csv"

\* the family the token belongs to: the first that applies of Wildcard, IP
\* with an optional port, URLPath and Domain, BlockingTypeUnknown if none
TokenFamily(token) ==
  LET e == stripProtocol(ToLower(token)) IN
    IF HasPrefix(e, S_star) /\ MatchDomainPattern(TrimPrefix(e, S_star))
    THEN BlockingTypeWildcard
    ELSE IF ParseIP(e) # Nil \/ ParseIP(removePort(e)) # Nil
    THEN BlockingTypeIP
    ELSE IF Contains(e, <<"/">>) THEN BlockingTypeURLPath
    ELSE IF MatchDomainPattern(e) THEN BlockingTypeDomain
    ELSE BlockingTypeUnknown

\* C29: categorizeEntry adds one entry of the family of the token, and
\* nothing for a token of no family.
C29_OneEntryOfFirstFamily ==
  lastCall.op = "categorizeEntry" =>
    IF TokenFamily(lastCall.token) = BlockingTypeUnknown
    THEN lastCall.ret.entry = Nil
    ELSE /\ lastCall.ret.entry # Nil
         /\ lastCall.ret.entry.Type = TokenFamily(lastCall.token)

\* C30: when Normalize has returned a key, Normalize of that key returns
\* the same key and no error.
C30_NormalizeIdempotent ==
  lastCall.op = "NormalizeAgain" =>
    lastCall.ret = [key |-> lastCall.rawURL, err |-> "nil"]

\* the suffixes of d made of its labels from index 1 onward
LabelSuffixes(d) ==
  {JoinDot(SubSeq(SplitDot(d), i, Len(SplitDot(d)))) : i \in 2..Len(SplitDot(d))}

\* C31: whatever non-empty keys were inserted, in whatever order, Search(k)
\* hits exactly when k is one of them, and MatchesWildcard(d) hits exactly
\* when a suffix of d made of its labels from index 1 onward is one of them
C31_RadixRoundTrip ==
  /\ lastCall.op = "Search" =>
       (lastCall.ret.exists <=> lastCall.key \in lastCall.keys)
  /\ lastCall.op = "MatchesWildcard" =>
       (lastCall.ret.exists <=> LabelSuffixes(lastCall.key) \cap lastCall.keys # {})

\* three keys sharing a prefix that is no key are stored, that prefix misses
\* and a domain above one of them matches
W_C31 ==
  /\ lastCall.op = "MatchesWildcard"
  /\ lastCall.keys = {S_bd, S_bc, S_bcd}
  /\ lastCall.key = S_dbc
  /\ lastCall.ret.exists
  /\ search(wildcards.root, <<"b", ".">>) # Nil
  /\ ~RadixSearch(wildcards, <<"b", ".">>).exists
  /\ wildcards.size = 3

\* ------------------------------------------------------------------------
\* C32
\* ------------------------------------------------------------------------

\* C32: after Clear and until the next Update the store is an empty
\* snapshot: IsBlocked reports every key not blocked, Stats reports 0 for
\* TotalEntries, DomainEntries, WildcardEntries, IPEntries and URLPatterns,
\* and no metadata of the previous registry (its Version) remains.
C32_ClearLeavesEmptySnapshot ==
  current.kind = "cleared" =>
    /\ \A k \in Keys : ~IsBlockedOn(Live, k).IsBlocked
    /\ Stats.TotalEntries = 0
    /\ Stats.DomainEntries = 0
    /\ Stats.WildcardEntries = 0
    /\ Stats.IPEntries = 0
    /\ Stats.URLPatterns = 0
    /\ Stats.Version = ""

\* ------------------------------------------------------------------------
\* C33
\* ------------------------------------------------------------------------

\* C33: Stats().TotalEntries is never negative, and whenever no Update or
\* Clear is in the middle of its commit it is the number of entries of the
\* registry whose Update committed last.
C33_TotalEntriesOfLastCommit ==
  /\ Stats.TotalEntries >= 0
  /\ (mu.writer = "none" /\ current.kind = "updated") =>
       Stats.TotalEntries = Len(current.registry.Entries)

\* two concurrent Updates of registries of different sizes have both
\* completed, the smaller one having committed last
W_C33 ==
  /\ \A t \in Goroutines : g[t].pc = "returned" /\ g[t].op = "Update" /\ g[t].ret = "nil"
  /\ g["g1"].arg # g["g2"].arg
  /\ mu.writer = "none"
  /\ current.kind = "updated" /\ Len(current.registry.Entries) = 1
  /\ Stats.TotalEntries = 1

\* ------------------------------------------------------------------------
\* C34
\* ------------------------------------------------------------------------

\* a Domain or SNI entry of the registry is k
DomainEntryFor(k) ==
  \E e \in CurrentEntries :
    RuleValid(e) /\ e.Type \in {BlockingTypeDomain, BlockingTypeSNI} /\ e.Domain = k

\* an IP entry of the registry is k
IPEntryFor(k) ==
  \E e \in CurrentEntries : RuleValid(e) /\ e.Type = BlockingTypeIP /\ e.IP = k

\* the families whose rules match k, in the order of the lookup
MatchingFamilies(k) ==
  <<DomainEntryFor(k), IPEntryFor(k), WildcardEntryOver(k), URLPathEntryFor(k)>>

\* the place of a rule type in the order of the lookup
FamilyOf(type) ==
  CASE type \in {BlockingTypeDomain, BlockingTypeSNI} -> 1
    [] type = BlockingTypeIP -> 2
    [] type = BlockingTypeWildcard -> 3
    [] type = BlockingTypeURLPath -> 4
    [] OTHER -> 0

\* rule is the rule of an entry of the registry that matches k
RuleOfMatchingEntry(rule, k) ==
  \E e \in CurrentEntries :
    /\ ToBlockingRule(e) = [rule |-> rule, err |-> "nil"]
    /\ \/ e.Type \in {BlockingTypeDomain, BlockingTypeSNI} /\ e.Domain = k
       \/ e.Type = BlockingTypeIP /\ e.IP = k
       \/ e.Type = BlockingTypeWildcard /\ IsProperSubdomain(k, WildcardBase(e))
       \/ e.Type = BlockingTypeURLPath /\ extractDomainFromURL(e.URL) = k

\* C34: when rules of several families match a key after Update, IsBlocked
\* reports a rule of the first matching family in the order exact
\* Domain/SNI, IP, wildcard, URL pattern, and Reason is the type of exactly
\* the rule it reports.
C34_FirstFamilyWins ==
  (LookupAfterUpdate
     /\ Cardinality({i \in 1..4 : MatchingFamilies(lastOp.key)[i]}) >= 2) =>
    /\ lastOp.result.IsBlocked
    /\ lastOp.result.Rule # Nil
    /\ lastOp.result.Reason = lastOp.result.Rule.Type
    /\ RuleOfMatchingEntry(lastOp.result.Rule, lastOp.key)
    /\ MatchingFamilies(lastOp.key)[FamilyOf(lastOp.result.Reason)]
    /\ \A i \in 1..4 :
         MatchingFamilies(lastOp.key)[i] => FamilyOf(lastOp.result.Reason) <= i

\* a.b.c is an exact Domain entry and a subdomain of the wildcard *.b.c,
\* listed first, and is reported with the Domain rule
W_C34 ==
  /\ LookupAfterUpdate
  /\ current.registry.Entries = <<E_WildBC, E_Domain>>
  /\ lastOp.key = S_abc
  /\ lastOp.result.IsBlocked
  /\ lastOp.result.Reason = BlockingTypeDomain
  /\ MatchesWildcard(wildcards, S_abc).exists

\* ------------------------------------------------------------------------
\* C35
\* ------------------------------------------------------------------------

\* C35: once the context passed to Start is cancelled and the update in
\* flight has returned, the loop starts no further performUpdate: from its
\* select it only leaves towards the exit, where Running becomes false.
C35_CancelledLoopStartsNoUpdate ==
  [][\A i \in DOMAIN loops :
       (loops[i].ctxDone /\ loops[i].pc = "select")
         => loops'[i].pc \in {"select", "unsetRunning"}]_vars

\* ------------------------------------------------------------------------
\* C36
\* ------------------------------------------------------------------------

\* the scheduler is running and is neither stopped nor cancelled
SchedulerActive ==
  /\ panicked = "none"
  /\ sched.running
  /\ ch.stopCh = "open"
  /\ loops # <<>>
  /\ ~loops[Len(loops)].ctxDone

\* TriggerUpdate was just called, n updates having started before the call
TriggerCalledAt(n) ==
  /\ lastCall.op = "TriggerUpdate"
  /\ lastCall.at = n
  /\ sched.totalUpdates = n

\* C36: while the scheduler is running and is neither stopped nor
\* cancelled, every TriggerUpdate call is eventually followed by a
\* performUpdate that starts after the call, also when the call arrives
\* while another update is in flight.
C36_TriggerLeadsToUpdate ==
  \A n \in 0..(MaxSchedUpdates - 1) :
    (TriggerCalledAt(n) /\ SchedulerActive)
      ~> (sched.totalUpdates > n \/ ~SchedulerActive)

\* a trigger sent while the initial update was in flight has been taken by
\* the select and its performUpdate has started after that update returned
W_C36 ==
  /\ SchedulerActive
  /\ lastCall.op = "TriggerUpdate" /\ lastCall.err = "sent" /\ lastCall.at = 1
  /\ sched.totalUpdates = 2
  /\ loops[Len(loops)].cause = "trigger"
  /\ InPerformUpdate(Len(loops))
  /\ ch.triggerCh = 0

\* ------------------------------------------------------------------------
\* C37
\* ------------------------------------------------------------------------

\* C37: no sequence or interleaving of Start, Stop, TriggerUpdate and
\* context cancellation on one Scheduler closes stopCh or doneCh a second
\* time: no close of a closed channel, hence no panic, ever happens.
C37_NoChannelClosedTwice == panicked # "close of closed channel"

\* ------------------------------------------------------------------------
\* C38
\* ------------------------------------------------------------------------

\* C38: whatever lastSuccessfulSource holds, orderSources returns a
\* permutation of the configured sources: as many as are configured, each
\* of them exactly once, also when several of them report the same name.
C38_OrderIsPermutation ==
  client # Nil =>
    /\ Len(orderSources(client)) = Len(client.sources)
    /\ \A k \in DOMAIN client.sources :
         Cardinality({j \in DOMAIN orderSources(client) :
                        orderSources(client)[j] = k}) = 1

\* ------------------------------------------------------------------------
\* C39
\* ------------------------------------------------------------------------

\* C39: whenever Fetch returns an error, exhausted retries or a context
\* cancelled during a backoff wait alike, the source's cached healthy flag
\* is false when it returns.
C39_FailedFetchMarksUnhealthy ==
  \A t \in DOMAIN srcCalls :
    (srcCalls[t].op = "Fetch" /\ srcCalls[t].pc = "return"
       /\ srcCalls[t].err # "nil") => ~source.healthy

\* ------------------------------------------------------------------------
\* C40
\* ------------------------------------------------------------------------

\* the IsHealthy of goroutine t read a lastHealth that an earlier check had
\* written and that was five minutes old or more when the call tested it
ReadStale(t) ==
  /\ srcCalls[t].seenLast # ZeroTime
  /\ srcCalls[t].at - srcCalls[t].seenLast >= HealthCacheWindow

\* C40: a source marked unhealthy is not excluded forever.  The IsHealthy
\* of a fetchFromSource that tests the cache of an unhealthy source once
\* five minutes or more have elapsed since lastHealth goes on to probe (an
\* OfficialSource tests its copies, a GitHubSource the fields); when the
\* probe of a call that found the window elapsed answers 200, the write
\* that follows marks the source healthy, IsHealthy returns true, and
\* fetchFromSource goes on to call Fetch on the source.
C40_UnhealthySourceRecovers ==
  /\ [][\A t \in DOMAIN srcCalls :
         (srcCalls[t].op = "fetchFromSource"
            /\ srcCalls'[t] # srcCalls[t]) =>
           /\ (srcCalls[t].pc = "test"
                 /\ ~srcCalls[t].seenHealthy
                 /\ srcCalls[t].seenLast # ZeroTime
                 /\ clock - srcCalls[t].seenLast >= HealthCacheWindow) =>
                srcCalls'[t].pc = "probe"
           /\ (srcCalls[t].pc = "read"
                 /\ source.kind = "github"
                 /\ ~source.healthy
                 /\ source.lastHealth # ZeroTime
                 /\ clock - source.lastHealth >= HealthCacheWindow) =>
                srcCalls'[t].pc = "probe"
           /\ (srcCalls[t].pc = "write_healthy"
                 /\ ReadStale(t) /\ srcCalls[t].probe = "200") =>
                source'.healthy]_vars
  /\ [](\A t \in DOMAIN srcCalls :
         (srcCalls[t].op = "fetchFromSource"
            /\ srcCalls[t].pc \in {"return", "call_fetch"}
            /\ ReadStale(t) /\ srcCalls[t].probe = "200") =>
           srcCalls[t].ret = TRUE)
  /\ [][\A t \in DOMAIN srcCalls :
         (srcCalls[t].op = "fetchFromSource"
            /\ srcCalls[t].pc \in {"return", "call_fetch"}
            /\ ReadStale(t) /\ srcCalls[t].probe = "200"
            /\ srcCalls'[t] # srcCalls[t]) =>
           IF srcCalls[t].pc = "return"
           THEN srcCalls'[t] = [srcCalls[t] EXCEPT !.pc = "call_fetch"]
           ELSE srcCalls'[t].op = "Fetch" /\ srcCalls'[t].pc = "loop"]_vars

====
